---- MODULE Spec2Model ----
(***************************************************************************)
(* roz: quality-gate controller for an AI coding agent.                    *)
(*                                                                         *)
(* The model covers the hook decision engine (src/core/hooks.rs), the      *)
(* circuit breaker (src/core/circuit_breaker.rs), the decide command       *)
(* (src/cli/decide.rs) and the file session store (src/storage/file.rs).   *)
(*                                                                         *)
(* Option<T> is modelled as a sequence of length 0 (None) or 1 (Some).     *)
(* Timestamps are integers (seconds); `now` is the wall clock every        *)
(* Utc::now() call of an invocation reads.                                 *)
(***************************************************************************)
EXTENDS Integers, Sequences, FiniteSets, TLC

VARIABLES
    store,      \* session id -> Option<SessionState>: the committed records
    now,        \* wall clock
    config,     \* the Config the hooks run under
    out,        \* what the last invocation did and answered
    obs,        \* history: per session, the stop verdicts handed out so far
    fsDir,      \* file backend: file name -> Option<inode id>
    fsInodes,   \* file backend: inode id -> file content
    procs,      \* file backend: the concurrent put_session / get_session calls
    sessionsDir \* file backend, whole calls: file name -> Option<file content>

vars == <<store, now, config, out, obs, fsDir, fsInodes, procs, sessionsDir>>

fsVars == <<fsDir, fsInodes, procs, sessionsDir>>

coreVars == <<store, now, config, out, obs>>

----------------------------------------------------------------------------
(* Bounds of the model.                                                    *)

\* Largest clock value.
MaxTime == 1

\* Largest trace length an invocation may still append to.
MaxTrace == 4

\* Largest configured circuit_breaker.max_blocks.
MaxBlocksBound == 2

\* Number of write() calls fs::write needs for one serialized session.
NChunks == 2

MaxPuts == 1

MaxGets == 2

\* Largest trace.max_events of the configurations with a small trace limit.
MaxEventsBound == 3

----------------------------------------------------------------------------
(* Program constants.                                                      *)

\* CircuitBreakerConfig::default().max_blocks
DefaultMaxBlocks == 3

\* TraceConfig::default().max_events
DefaultMaxEvents == 500

\* Clock-skew buffer of handle_subagent_stop, seconds.
BufferSeconds == 5

\* Fallback execution window of handle_subagent_stop: Duration::hours(1).
FallbackWindowSeconds == 3600

\* keep_start of add_trace_event is 10.min(max_events / 2).
KeepStartMax == 10

----------------------------------------------------------------------------
(* Option and sequence helpers.                                            *)

None == <<>>

Some(x) == <<x>>

IsSome(o) == Len(o) = 1

Unwrap(o) == o[1]

Min2(a, b) == IF a <= b THEN a ELSE b

Times == 0..MaxTime

SessionIds == {"S1"}

----------------------------------------------------------------------------
(* State model: src/core/state.rs                                          *)

DecisionPending == [type |-> "pending"]

DecisionComplete == [type |-> "complete"]

DecisionIssues == [type |-> "issues"]

ReviewStateDefault ==
    [ enabled                 |-> FALSE,
      decision                |-> DecisionPending,
      decision_history        |-> <<>>,
      user_prompts            |-> <<>>,
      gate_trigger            |-> None,
      gate_approved_at        |-> None,
      last_prompt_at          |-> None,
      review_started_at       |-> None,
      block_count             |-> 0,
      circuit_breaker_tripped |-> FALSE,
      attempts                |-> <<>> ]

SessionStateNew(session_id, t) ==
    [ session_id |-> session_id,
      review     |-> ReviewStateDefault,
      trace      |-> <<>>,
      created_at |-> t,
      updated_at |-> t ]

\* TraceEvent.id (a fresh uuid) and TraceEvent.timestamp are written and never
\* read back by a handler; the model keeps the event type and the payload.
TraceEvent(event_type, payload) ==
    [ event_type |-> event_type, payload |-> payload ]

----------------------------------------------------------------------------
(* Circuit breaker: src/core/circuit_breaker.rs                            *)

\* Mutant: the limit is never checked, only the flag.
should_trip_FlagOnly(state, cb) == state.review.circuit_breaker_tripped

\* Mutant: the breaker trips only above the limit.
should_trip_StrictlyAbove(state, cb) ==
    IF state.review.circuit_breaker_tripped
    THEN TRUE
    ELSE state.review.block_count > cb.max_blocks

should_trip(state, cb) ==
    IF state.review.circuit_breaker_tripped
    THEN TRUE
    ELSE state.review.block_count >= cb.max_blocks

trip(state) ==
    [state EXCEPT !.review.circuit_breaker_tripped = TRUE,
                  !.review.enabled = FALSE]

----------------------------------------------------------------------------
(* Storage results as the handlers see them.                               *)
(* got: [err |-> BOOLEAN, val |-> Option<SessionState>] is the result of   *)
(* get_session; putOk tells whether a put_session the handler makes        *)
(* succeeds.  A handler answers [verdict, put], put being the record it    *)
(* hands to put_session (None when it makes no put_session call).          *)

Lookup(s) == IF s \in DOMAIN store THEN store[s] ELSE None

GetResult(s, getFails) ==
    IF getFails THEN [err |-> TRUE, val |-> None]
    ELSE [err |-> FALSE, val |-> Lookup(s)]

----------------------------------------------------------------------------
(* Strings the code inspects are sequences of characters.                  *)

RECURSIVE TrimStart(_)
TrimStart(str) ==
    IF str /= <<>> /\ Head(str) = " " THEN TrimStart(Tail(str)) ELSE str

StartsWith(str, prefix) ==
    /\ Len(str) >= Len(prefix)
    /\ SubSeq(str, 1, Len(prefix)) = prefix

RozMarker == <<"#", "r", "o", "z">>

\* Prompts the host may deliver (input.prompt.unwrap_or("") is the empty one).
Prompts ==
    { <<" ", "#", "r", "o", "z">>,
      <<"x", "#", "r", "o", "z">>,
      <<>> }

----------------------------------------------------------------------------
(* Template selection: src/template.rs                                     *)

RECURSIVE SumWeights(_, _)
SumWeights(weights, keys) ==
    IF keys = <<>> THEN 0
    ELSE weights[Head(keys)] + SumWeights(weights, Tail(keys))

RECURSIVE WalkWeights(_, _, _, _)
WalkWeights(weights, keys, roll, cumulative) ==
    IF keys = <<>> THEN None
    ELSE IF roll < cumulative + weights[Head(keys)] THEN Some(Head(keys))
    ELSE WalkWeights(weights, Tail(keys), roll, cumulative + weights[Head(keys)])

\* order: the iteration order of the HashMap; nanos: the time-derived draw.
weighted_random(weights, order, nanos) ==
    IF order = <<>> THEN "default"
    ELSE LET total == SumWeights(weights, order) IN
         IF total = 0 THEN Head(order)
         ELSE LET hit == WalkWeights(weights, order, nanos % total, 0) IN
              IF IsSome(hit) THEN Unwrap(hit) ELSE Head(order)

select_template(templates, order, nanos) ==
    IF templates.active = "random"
    THEN weighted_random(templates.weights, order, nanos)
    ELSE templates.active

\* TemplateConfig::default()
TemplateConfigDefault ==
    [active |-> "default", weights |-> [k \in {"default"} |-> 100]]

\* The iteration orders a HashMap with these keys may produce.
Orders(weights) ==
    LET K == DOMAIN weights IN
    { o \in [1..Cardinality(K) -> K] : \A i, j \in 1..Cardinality(K) : i /= j => o[i] /= o[j] }

\* Mutant: no attempt is recorded.
record_review_attempt_Nothing(state, template_id) == state

\* ReviewAttempt.timestamp is written and never read back; it is left out.
record_review_attempt(state, template_id) ==
    [state EXCEPT !.review.attempts =
        Append(@, [template_id |-> template_id, outcome |-> [type |-> "pending"]])]

----------------------------------------------------------------------------
(* Hook handlers: src/core/hooks.rs                                        *)

Answer(verdict, reason, put) == [verdict |-> verdict, reason |-> reason, put |-> put]

\* Mutant: a resumed session gets a session_start event too.
handle_session_start_AlwaysAppends(input, got, t) ==
    IF got.err THEN Answer("approve", "storage_error", None)
    ELSE LET s0 == IF IsSome(got.val) THEN Unwrap(got.val)
                   ELSE SessionStateNew(input.session_id, t)
         IN Answer("approve", "none",
                   Some([s0 EXCEPT !.trace =
                           Append(@, TraceEvent("session_start", input.source))]))

\* input: [session_id, source]
handle_session_start(input, got, t) ==
    IF got.err THEN Answer("approve", "storage_error", None)
    ELSE LET state ==
                IF IsSome(got.val) THEN Unwrap(got.val)
                ELSE [SessionStateNew(input.session_id, t) EXCEPT !.trace =
                        Append(@, TraceEvent("session_start", input.source))]
         IN Answer("approve", "none", Some(state))

\* Mutants: a #roz prompt starts the session's review over, clearing the
\* breaker (ClearsBreaker) or the block count (ResetsCount).
UserPromptWith(input, got, t, clearBreaker, resetCount) ==
    IF got.err THEN Answer("approve", "storage_error", None)
    ELSE LET s0 == IF IsSome(got.val) THEN Unwrap(got.val)
                   ELSE SessionStateNew(input.session_id, t)
             s1 == [s0 EXCEPT !.review.last_prompt_at = Some(t)]
             s2 == IF StartsWith(TrimStart(input.prompt), RozMarker)
                   THEN [s1 EXCEPT !.review.enabled = TRUE,
                                   !.review.user_prompts = Append(@, input.prompt),
                                   !.review.decision = DecisionPending,
                                   !.review.circuit_breaker_tripped =
                                       IF clearBreaker THEN FALSE ELSE @,
                                   !.review.block_count = IF resetCount THEN 0 ELSE @,
                                   !.trace = Append(@, TraceEvent("prompt_received", input.prompt))]
                   ELSE s1
         IN Answer("approve", "none", Some([s2 EXCEPT !.updated_at = t]))

handle_user_prompt_ClearsBreaker(input, got, t) == UserPromptWith(input, got, t, TRUE, FALSE)

handle_user_prompt_ResetsCount(input, got, t) == UserPromptWith(input, got, t, FALSE, TRUE)

\* Mutant: the marker is looked for at the very start of the raw prompt.
handle_user_prompt_NoTrim(input, got, t) ==
    IF got.err THEN Answer("approve", "storage_error", None)
    ELSE LET s0 == IF IsSome(got.val) THEN Unwrap(got.val)
                   ELSE SessionStateNew(input.session_id, t)
             s1 == [s0 EXCEPT !.review.last_prompt_at = Some(t)]
             s2 == IF StartsWith(input.prompt, RozMarker)
                   THEN [s1 EXCEPT !.review.enabled = TRUE,
                                   !.review.user_prompts = Append(@, input.prompt),
                                   !.review.decision = DecisionPending,
                                   !.trace = Append(@, TraceEvent("prompt_received", input.prompt))]
                   ELSE s1
         IN Answer("approve", "none", Some([s2 EXCEPT !.updated_at = t]))

\* input: [session_id, prompt]
handle_user_prompt(input, got, t) ==
    IF got.err THEN Answer("approve", "storage_error", None)
    ELSE LET s0 == IF IsSome(got.val) THEN Unwrap(got.val)
                   ELSE SessionStateNew(input.session_id, t)
             s1 == [s0 EXCEPT !.review.last_prompt_at = Some(t)]
             s2 == IF StartsWith(TrimStart(input.prompt), RozMarker)
                   THEN [s1 EXCEPT !.review.enabled = TRUE,
                                   !.review.user_prompts = Append(@, input.prompt),
                                   !.review.decision = DecisionPending,
                                   !.trace = Append(@, TraceEvent("prompt_received", input.prompt))]
                   ELSE s1
         IN Answer("approve", "none", Some([s2 EXCEPT !.updated_at = t]))

\* Mutant: the Issues arm approves like the Complete arm.
StopBlockArm_IssuesApprove(state, cfg, t, template_id, reason) ==
    LET s1 == [state EXCEPT !.review.block_count = @ + 1] IN
    IF should_trip(s1, cfg.circuit_breaker)
    THEN Answer("approve", "circuit_breaker", Some([trip(s1) EXCEPT !.updated_at = t]))
    ELSE IF reason = "issues"
    THEN Answer("approve", "complete", Some([state EXCEPT !.updated_at = t]))
    ELSE Answer("block", reason,
                Some([record_review_attempt(s1, template_id) EXCEPT !.updated_at = t]))

\* The Pending and the Issues arm of handle_stop_with_config: count the block,
\* re-check the breaker, record the attempt.
StopBlockArm(state, cfg, t, template_id, reason) ==
    LET s1 == [state EXCEPT !.review.block_count = @ + 1] IN
    IF should_trip(s1, cfg.circuit_breaker)
    THEN Answer("approve", "circuit_breaker", Some([trip(s1) EXCEPT !.updated_at = t]))
    ELSE Answer("block", reason,
                Some([record_review_attempt(s1, template_id) EXCEPT !.updated_at = t]))

\* input: [session_id]; template_id: what select_template(&config.templates) returns.
handle_stop_with_config(input, got, cfg, t, template_id) ==
    IF got.err THEN Answer("approve", "storage_error", None)
    ELSE IF ~IsSome(got.val) THEN Answer("approve", "no_session", None)
    ELSE LET s0 == Unwrap(got.val)
             s1 == [s0 EXCEPT !.trace = Append(@, TraceEvent("stop_hook_called", "none"))]
         IN IF ~s1.review.enabled
            THEN Answer("approve", "not_enabled", Some([s1 EXCEPT !.updated_at = t]))
            ELSE IF should_trip(s1, cfg.circuit_breaker)
            THEN Answer("approve", "circuit_breaker", Some([trip(s1) EXCEPT !.updated_at = t]))
            ELSE IF s1.review.decision.type = "pending"
            THEN StopBlockArm(s1, cfg, t, template_id, "template")
            ELSE IF s1.review.decision.type = "complete"
            THEN Answer("approve", "complete", Some([s1 EXCEPT !.updated_at = t]))
            ELSE StopBlockArm(s1, cfg, t, template_id, "issues")

----------------------------------------------------------------------------
(* subagent-stop                                                           *)

\* Tokens matching [a-zA-Z0-9_-]+ among the tokens subagent prompts are made of.
WordTokens == {"S1", "S9", "review", "SESSION_ID"}

RECURSIVE SkipSpaces(_)
SkipSpaces(toks) ==
    IF toks /= <<>> /\ Head(toks) = " " THEN SkipSpaces(Tail(toks)) ELSE toks

\* Regex SESSION_ID[=:]\s*([a-zA-Z0-9_-]+), leftmost match, on a token sequence.
RECURSIVE SearchSessionId(_)
SearchSessionId(toks) ==
    IF Len(toks) < 3 THEN None
    ELSE IF Head(toks) = "SESSION_ID" /\ toks[2] \in {"=", ":"}
            /\ SkipSpaces(Tail(Tail(toks))) /= <<>>
            /\ Head(SkipSpaces(Tail(Tail(toks)))) \in WordTokens
         THEN Some(Head(SkipSpaces(Tail(Tail(toks)))))
         ELSE SearchSessionId(Tail(toks))

extract_session_id(prompt) ==
    IF ~IsSome(prompt) THEN None ELSE SearchSessionId(Unwrap(prompt))

\* input: [subagent_type, subagent_prompt, subagent_started_at]; t is the
\* reading of Utc::now().  startInclusive is FALSE in the code.
SubagentStopWith(input, getFails, t, startInclusive) ==
    IF input.subagent_type /= Some("roz:roz") THEN Answer("approve", "other_subagent", None)
    ELSE LET sid == extract_session_id(input.subagent_prompt) IN
    IF ~IsSome(sid) THEN Answer("block", "no_session_id", None)
    ELSE LET subagent_started ==
                IF IsSome(input.subagent_started_at)
                THEN Unwrap(input.subagent_started_at)
                ELSE t - FallbackWindowSeconds
             subagent_ended == t
             got == GetResult(Unwrap(sid), getFails)
         IN IF got.err THEN Answer("approve", "storage_error", None)
            ELSE IF ~IsSome(got.val) THEN Answer("approve", "no_session", None)
            ELSE LET state == Unwrap(got.val)
                     decision_time == state.updated_at
                 IN IF state.review.decision.type = "pending"
                    THEN Answer("block", "no_decision", None)
                    ELSE IF \/ decision_time < subagent_started
                            \/ startInclusive /\ decision_time = subagent_started
                    THEN Answer("block", "before_start", None)
                    ELSE IF decision_time > subagent_ended + BufferSeconds
                    THEN Answer("block", "after_end", None)
                    ELSE Answer("approve", "in_window", None)

\* Mutant: a decision stamped exactly at the start of the window is refused.
handle_subagent_stop_StartInclusive(input, getFails, t) ==
    SubagentStopWith(input, getFails, t, TRUE)

handle_subagent_stop(input, getFails, t) ==
    SubagentStopWith(input, getFails, t, FALSE)

----------------------------------------------------------------------------
(* pre-tool-use (gates)                                                    *)

\* glob::Pattern::matches with the default options, for patterns made of
\* literal characters, '?' and '*'.
RECURSIVE GlobMatches(_, _)
GlobMatches(pattern, text) ==
    IF pattern = <<>> THEN text = <<>>
    ELSE IF pattern = <<"*">> THEN TRUE
    ELSE IF Head(pattern) = "*"
    THEN \/ GlobMatches(Tail(pattern), text)
         \/ text /= <<>> /\ GlobMatches(pattern, Tail(text))
    ELSE /\ text /= <<>>
         /\ Head(pattern) = "?" \/ Head(pattern) = Head(text)
         /\ GlobMatches(Tail(pattern), Tail(text))

\* glob::Pattern::new fails on an unclosed character class.
PatternCompiles(pattern) == \A i \in 1..Len(pattern) : pattern[i] /= "["

RECURSIVE TrimEndStars(_)
TrimEndStars(pattern) ==
    IF pattern /= <<>> /\ pattern[Len(pattern)] = "*"
    THEN TrimEndStars(SubSeq(pattern, 1, Len(pattern) - 1))
    ELSE pattern

\* Mutant: every pattern matches every key.
glob_match_Always(pattern, tool_key) == TRUE

glob_match(pattern, tool_key) ==
    IF PatternCompiles(pattern) THEN GlobMatches(pattern, tool_key)
    ELSE StartsWith(tool_key, TrimEndStars(pattern))

----------------------------------------------------------------------------
(* Bash command normalization: src/core/hooks.rs                           *)

\* char::is_whitespace, on the characters commands of the model are made of.
WhiteSpace == {" ", "\t", "\n"}

\* char::is_alphanumeric on ASCII; commands of the model hold no other letters.
Alphanumeric ==
    { "a", "b", "c", "d", "e", "f", "g", "h", "i", "j", "k", "l", "m", "n", "o", "p", "q", "r", "s", "t", "u", "v", "w", "x", "y", "z",
      "A", "B", "C", "D", "E", "F", "G", "H", "I", "J", "K", "L", "M", "N", "O", "P", "Q", "R", "S", "T", "U", "V", "W", "X", "Y", "Z",
      "0", "1", "2", "3", "4", "5", "6", "7", "8", "9" }

IsVarChar(c) == c \in Alphanumeric \/ c = "_"

Drop(str, n) == SubSeq(str, n + 1, Len(str))

RECURSIVE trim_start(_)
trim_start(str) ==
    IF str /= <<>> /\ Head(str) \in WhiteSpace THEN trim_start(Tail(str)) ELSE str

RECURSIVE trim_end(_)
trim_end(str) ==
    IF str /= <<>> /\ str[Len(str)] \in WhiteSpace
    THEN trim_end(SubSeq(str, 1, Len(str) - 1))
    ELSE str

trim(str) == trim_end(trim_start(str))

\* str::find with a predicate: the first index whose character is in chars, 0 if none.
RECURSIVE FindFrom(_, _, _)
FindFrom(str, chars, i) ==
    IF i > Len(str) THEN 0
    ELSE IF str[i] \in chars THEN i
    ELSE FindFrom(str, chars, i + 1)

Find(str, chars) == FindFrom(str, chars, 1)

\* The values in_single_quote and in_double_quote may hold between iterations.
QuoteFlags == [in_single_quote : BOOLEAN, in_double_quote : BOOLEAN]

\* One iteration of the loop of find_last_unquoted_pipe, at position i, entered
\* with the flags q; prev_char is cmd[i - 1].  It yields the flags and, if this
\* iteration assigns last_pipe, the position assigned.
ScanChar(cmd, i, q) ==
    LET c          == cmd[i]
        prevIs(ch) == i > 1 /\ cmd[i - 1] = ch
    IN CASE c = "'" /\ ~q.in_double_quote /\ ~prevIs("\\") ->
                [flags |-> [q EXCEPT !.in_single_quote = ~@], last_pipe |-> None]
         [] c = "\"" /\ ~q.in_single_quote /\ ~prevIs("\\") ->
                [flags |-> [q EXCEPT !.in_double_quote = ~@], last_pipe |-> None]
         [] c = "|" /\ ~q.in_single_quote /\ ~q.in_double_quote /\ ~prevIs("|") ->
                [flags |-> q, last_pipe |-> Some(i)]
         [] OTHER -> [flags |-> q, last_pipe |-> None]

\* Two runs of iterations, one after the other: the second starts with the
\* flags the first ends with, and the last assignment to last_pipe stands.
ScanThen(first, second) ==
    [q \in QuoteFlags |->
        [flags     |-> second[first[q].flags].flags,
         last_pipe |-> IF IsSome(second[first[q].flags].last_pipe)
                       THEN second[first[q].flags].last_pipe
                       ELSE first[q].last_pipe]]

\* The iterations for positions lo..hi in order, for each value of the flags
\* on entry; a range is run as its two halves so that commands of more than
\* 80 characters are scanned at a depth TLC evaluates.
RECURSIVE ScanPipes(_, _, _)
ScanPipes(cmd, lo, hi) ==
    IF lo = hi THEN [q \in QuoteFlags |-> ScanChar(cmd, lo, q)]
    ELSE ScanThen(ScanPipes(cmd, lo, (lo + hi) \div 2),
                  ScanPipes(cmd, (lo + hi) \div 2 + 1, hi))

\* Mutant: quotes are not tracked, every '|' not following a '|' is a pipe.
find_last_unquoted_pipe_IgnoresQuotes(cmd) ==
    LET pipes == { i \in 1..Len(cmd) : cmd[i] = "|" /\ ~(i > 1 /\ cmd[i - 1] = "|") }
    IN IF pipes = {} THEN None
       ELSE Some(CHOOSE i \in pipes : \A k \in pipes : k <= i)

\* Option<usize>: the index (counted from 1) of the last recorded pipe.
find_last_unquoted_pipe(cmd) ==
    IF cmd = <<>> THEN None
    ELSE ScanPipes(cmd, 1, Len(cmd))[[in_single_quote |-> FALSE,
                                      in_double_quote |-> FALSE]].last_pipe

\* The closing double quote of skip_value_str: the first '"' of rest not
\* preceded, inside rest, by a backslash; 0 if none.
RECURSIVE ClosingDoubleQuote(_, _)
ClosingDoubleQuote(rest, i) ==
    IF i > Len(rest) THEN 0
    ELSE IF rest[i] = "\"" /\ ~(i > 1 /\ rest[i - 1] = "\\") THEN i
    ELSE ClosingDoubleQuote(rest, i + 1)

skip_value_str(str) ==
    LET s == trim_start(str) IN
    IF s /= <<>> /\ Head(s) = "\""
    THEN LET rest == Tail(s)
             i    == ClosingDoubleQuote(rest, 1)
         IN IF i > 0 THEN Drop(rest, i) ELSE s
    ELSE IF s /= <<>> /\ Head(s) = "'"
    THEN LET rest == Tail(s)
             end  == Find(rest, {"'"})
         IN IF end > 0 THEN Drop(rest, end) ELSE s
    ELSE LET space == Find(s, WhiteSpace)
         IN IF space > 0 THEN Drop(s, space - 1) ELSE <<>>

\* The while loop of skip_env_command.
RECURSIVE SkipEnvPairs(_)
SkipEnvPairs(rest) ==
    LET eq_pos == Find(rest, {"="}) IN
    IF eq_pos = 0 THEN rest
    ELSE IF \A k \in 1..(eq_pos - 1) : IsVarChar(rest[k])
    THEN SkipEnvPairs(trim(skip_value_str(Drop(rest, eq_pos))))
    ELSE rest

skip_env_command(cmd) == SkipEnvPairs(trim(cmd))

ShellPrefixes ==
    { <<"b", "a", "s", "h", " ", "-", "c", " ">>,
      <<"s", "h", " ", "-", "c", " ">>,
      <<"/", "b", "i", "n", "/", "b", "a", "s", "h", " ", "-", "c", " ">>,
      <<"/", "b", "i", "n", "/", "s", "h", " ", "-", "c", " ">> }

\* Option<&str>; rest.get(1..rest.len() - 1) is None for a rest of one character.
extract_nested_shell_command(cmd) ==
    IF \E shell \in ShellPrefixes : StartsWith(cmd, shell)
    THEN LET shell == CHOOSE sh \in ShellPrefixes : StartsWith(cmd, sh)
             rest  == trim(Drop(cmd, Len(shell)))
         IN IF rest /= <<>> /\ Head(rest) \in {"\"", "'"}
            THEN IF Len(rest) >= 2 THEN Some(SubSeq(rest, 2, Len(rest) - 1)) ELSE None
            ELSE Some(rest)
    ELSE None

\* rest.find(|c| !c.is_alphanumeric() && c != '_').unwrap_or(rest.len()), from i on.
RECURSIVE WordEnd(_, _)
WordEnd(rest, i) ==
    IF i > Len(rest) \/ ~IsVarChar(rest[i]) THEN i - 1 ELSE WordEnd(rest, i + 1)

\* The loop of strip_env_vars.
RECURSIVE StripEnvLoop(_)
StripEnvLoop(rest) ==
    LET word_end == WordEnd(rest, 1) IN
    IF word_end = 0 THEN rest
    ELSE IF word_end < Len(rest) /\ rest[word_end + 1] = "="
    THEN StripEnvLoop(trim(skip_value_str(Drop(rest, word_end + 1))))
    ELSE rest

strip_env_vars(cmd) == StripEnvLoop(trim(cmd))

\* chars().take(80)
MaxKeyChars == 80

Take(str, n) == SubSeq(str, 1, Min2(n, Len(str)))

\* normalize_bash_command after its pipe step: env prefix, nested shell,
\* leading assignments, first 80 characters.
AfterPipeSteps(cmd1) ==
    LET cmd2   == IF StartsWith(cmd1, <<"e", "n", "v", " ">>)
                  THEN skip_env_command(Drop(cmd1, 4))
                  ELSE cmd1
        nested == extract_nested_shell_command(cmd2)
        cmd3   == IF IsSome(nested) THEN Unwrap(nested) ELSE cmd2
        cmd4   == strip_env_vars(cmd3)
    IN Take(cmd4, MaxKeyChars)

\* cmd[last_pipe + 1..].trim() when a pipe was recorded, cmd otherwise.
AfterLastPipe(cmd, last_pipe) ==
    IF IsSome(last_pipe) THEN trim(Drop(cmd, Unwrap(last_pipe))) ELSE cmd

TakeSink(cmd) == AfterLastPipe(cmd, find_last_unquoted_pipe(cmd))

normalize_bash_command(command) == AfterPipeSteps(TakeSink(trim(command)))

BashName == <<"B", "a", "s", "h">>

\* tool_input: Option of a JSON object, a record that may hold a "command" string.
format_tool_key(tool_name, tool_input) ==
    LET name == IF IsSome(tool_name) THEN Unwrap(tool_name)
                ELSE <<"u", "n", "k", "n", "o", "w", "n">>
    IN IF /\ name = BashName
          /\ IsSome(tool_input)
          /\ "command" \in DOMAIN Unwrap(tool_input)
       THEN BashName \o <<":">> \o normalize_bash_command(Unwrap(tool_input).command)
       ELSE name

\* Mutant: the last matching pattern wins.
RECURSIVE find_matching_pattern_Last(_, _)
find_matching_pattern_Last(tool_key, patterns) ==
    IF patterns = <<>> THEN None
    ELSE IF glob_match(patterns[Len(patterns)], tool_key) THEN Some(patterns[Len(patterns)])
    ELSE find_matching_pattern_Last(tool_key, SubSeq(patterns, 1, Len(patterns) - 1))

RECURSIVE find_matching_pattern(_, _)
find_matching_pattern(tool_key, patterns) ==
    IF patterns = <<>> THEN None
    ELSE IF glob_match(Head(patterns), tool_key) THEN Some(Head(patterns))
    ELSE find_matching_pattern(tool_key, Tail(patterns))

\* Mutants of is_gate_approved: the TTL test is >= instead of > (ttlStrict),
\* the prompt scope always compares with last_prompt_at (lastPromptOnly).
GateApprovedWith(state, gates, t, ttlStrict, lastPromptOnly) ==
    IF state.review.decision.type /= "complete" THEN FALSE
    ELSE IF ~IsSome(state.review.gate_approved_at) THEN FALSE
    ELSE LET approved_at == Unwrap(state.review.gate_approved_at) IN
    IF IsSome(gates.approval_ttl_seconds)
       /\ IF ttlStrict THEN t >= approved_at + Unwrap(gates.approval_ttl_seconds)
          ELSE t > approved_at + Unwrap(gates.approval_ttl_seconds)
    THEN FALSE
    ELSE IF gates.approval_scope = "session" THEN TRUE
    ELSE IF gates.approval_scope = "prompt"
    THEN LET last_prompt_at == state.review.last_prompt_at
             review_started_at == state.review.review_started_at
             effective_prompt_at ==
                IF ~lastPromptOnly
                   /\ IsSome(last_prompt_at) /\ IsSome(review_started_at)
                   /\ Unwrap(last_prompt_at) > Unwrap(review_started_at)
                THEN review_started_at
                ELSE last_prompt_at
         IN IF IsSome(effective_prompt_at)
            THEN approved_at > Unwrap(effective_prompt_at)
            ELSE TRUE
    ELSE FALSE

is_gate_approved_TtlOffByOne(state, gates, t) == GateApprovedWith(state, gates, t, TRUE, FALSE)

is_gate_approved_LastPromptOnly(state, gates, t) == GateApprovedWith(state, gates, t, FALSE, TRUE)

\* Mutant: the tool scope accepts an approval as the session scope does.
is_gate_approved_ToolLikeSession(state, gates, t) ==
    GateApprovedWith(state,
                     [gates EXCEPT !.approval_scope = IF @ = "tool" THEN "session" ELSE @],
                     t, FALSE, FALSE)

\* Mutant: the TTL rejects an approval until it is older than the limit.
is_gate_approved_TtlReversed(state, gates, t) ==
    IF state.review.decision.type /= "complete" THEN FALSE
    ELSE IF ~IsSome(state.review.gate_approved_at) THEN FALSE
    ELSE LET approved_at == Unwrap(state.review.gate_approved_at) IN
    IF IsSome(gates.approval_ttl_seconds)
       /\ t <= approved_at + Unwrap(gates.approval_ttl_seconds)
    THEN FALSE
    ELSE IF gates.approval_scope = "session" THEN TRUE
    ELSE IF gates.approval_scope = "prompt"
    THEN LET last_prompt_at == state.review.last_prompt_at
             review_started_at == state.review.review_started_at
             effective_prompt_at ==
                IF IsSome(last_prompt_at) /\ IsSome(review_started_at)
                   /\ Unwrap(last_prompt_at) > Unwrap(review_started_at)
                THEN review_started_at
                ELSE last_prompt_at
         IN IF IsSome(effective_prompt_at)
            THEN approved_at > Unwrap(effective_prompt_at)
            ELSE TRUE
    ELSE FALSE

is_gate_approved(state, gates, t) ==
    IF state.review.decision.type /= "complete" THEN FALSE
    ELSE IF ~IsSome(state.review.gate_approved_at) THEN FALSE
    ELSE LET approved_at == Unwrap(state.review.gate_approved_at) IN
    IF IsSome(gates.approval_ttl_seconds)
       /\ t > approved_at + Unwrap(gates.approval_ttl_seconds)
    THEN FALSE
    ELSE IF gates.approval_scope = "session" THEN TRUE
    ELSE IF gates.approval_scope = "prompt"
    THEN LET last_prompt_at == state.review.last_prompt_at
             review_started_at == state.review.review_started_at
             effective_prompt_at ==
                IF IsSome(last_prompt_at) /\ IsSome(review_started_at)
                   /\ Unwrap(last_prompt_at) > Unwrap(review_started_at)
                THEN review_started_at
                ELSE last_prompt_at
         IN IF IsSome(effective_prompt_at)
            THEN approved_at > Unwrap(effective_prompt_at)
            ELSE TRUE
    ELSE FALSE

\* Mutant: no slot is kept for the compaction marker.
add_trace_event_NoMarkerSlot(state, event, max_events) ==
    LET pushed == Append(state.trace, event) IN
    IF Len(pushed) > max_events
    THEN LET keep_start == Min2(KeepStartMax, max_events \div 2)
             keep_end   == max_events - keep_start
             wrapped    == keep_end < 0
             total      == Len(pushed)
             dropped    == total - max_events
             marker     == TraceEvent("trace_compacted",
                              [dropped_events |-> dropped, kept_start |-> keep_start,
                               kept_end |-> keep_end])
             rest       == SubSeq(pushed, keep_start + 1, total)
             remaining  == Len(rest)
             tail       == IF ~wrapped /\ remaining > keep_end
                           THEN SubSeq(rest, remaining - keep_end + 1, remaining)
                           ELSE rest
         IN [state EXCEPT !.trace = SubSeq(pushed, 1, keep_start) \o <<marker>> \o tail]
    ELSE [state EXCEPT !.trace = pushed]

\* keep_end is a usize: max_events - keep_start - 1 underflows when
\* max_events = 0.  A release build wraps to usize::MAX (written -1 here, and
\* larger than every length it is compared with); a build with overflow checks
\* panics there.
add_trace_event(state, event, max_events) ==
    LET pushed == Append(state.trace, event) IN
    IF Len(pushed) > max_events
    THEN LET keep_start == Min2(KeepStartMax, max_events \div 2)
             keep_end   == max_events - keep_start - 1
             wrapped    == keep_end < 0
             total      == Len(pushed)
             dropped    == total - max_events
             marker     == TraceEvent("trace_compacted",
                              [dropped_events |-> dropped, kept_start |-> keep_start,
                               kept_end |-> keep_end])
             rest       == SubSeq(pushed, keep_start + 1, total)
             remaining  == Len(rest)
             tail       == IF ~wrapped /\ remaining > keep_end
                           THEN SubSeq(rest, remaining - keep_end + 1, remaining)
                           ELSE rest
         IN [state EXCEPT !.trace = SubSeq(pushed, 1, keep_start) \o <<marker>> \o tail]
    ELSE [state EXCEPT !.trace = pushed]

\* Mutant: the allow is traced as a block.
trace_gate_allowed_AsBlocked(state, tool, reason, max_events) ==
    add_trace_event(state, TraceEvent("gate_blocked", [tool |-> tool, pattern |-> reason]),
                    max_events)

trace_gate_allowed(state, tool, reason, max_events) ==
    add_trace_event(state, TraceEvent("gate_allowed", [tool |-> tool, reason |-> reason]),
                    max_events)

\* TruncatedInput::from_value for an input whose serialization is at most
\* MAX_SIZE bytes (every tool input of the model is).
TruncatedInputFromValue(value) == [value |-> value, truncated |-> FALSE]

\* input: [session_id, tool_name, tool_input]
handle_pre_tool_use(input, cfg, getFails, putFails, t) ==
    IF cfg.review.gates.tools = <<>> THEN Answer("allow", "gates_disabled", None)
    ELSE LET tool_key == format_tool_key(input.tool_name, input.tool_input)
             matched  == find_matching_pattern(tool_key, cfg.review.gates.tools)
         IN
    IF ~IsSome(matched) THEN Answer("allow", "no_match", None)
    ELSE LET got == GetResult(input.session_id, getFails) IN
    IF got.err THEN Answer("allow", "storage_error", None)
    ELSE LET state == IF IsSome(got.val) THEN Unwrap(got.val)
                      ELSE SessionStateNew(input.session_id, t)
         IN
    IF state.review.circuit_breaker_tripped
    THEN Answer("allow", "circuit_breaker",
                Some(trace_gate_allowed(state, tool_key, "circuit_breaker",
                                        cfg.trace.max_events)))
    ELSE IF is_gate_approved(state, cfg.review.gates, t)
    THEN Answer("allow", "approved",
                Some(trace_gate_allowed(state, tool_key, "approved",
                                        cfg.trace.max_events)))
    ELSE LET s1 == [state EXCEPT
                      !.review.enabled = TRUE,
                      !.review.review_started_at = Some(t),
                      !.review.gate_trigger =
                          Some([tool_name       |-> tool_key,
                                tool_input      |-> TruncatedInputFromValue(input.tool_input),
                                triggered_at    |-> t,
                                pattern_matched |-> Unwrap(matched)])]
             s2 == add_trace_event(s1,
                      TraceEvent("gate_blocked",
                                 [tool |-> tool_key, pattern |-> Unwrap(matched)]),
                      cfg.trace.max_events)
             s3 == [s2 EXCEPT !.updated_at = t]
         IN IF putFails THEN Answer("allow", "save_failed", Some(s3))
            ELSE Answer("deny", "review_required", Some(s3))

----------------------------------------------------------------------------
(* decide: src/cli/decide.rs                                               *)

\* Decision kinds the command line may carry.
Kinds == {"COMPLETE", "issues", "maybe"}

\* Mutant: an unknown kind is read as ISSUES.
to_uppercase_UnknownIsIssues(kind) ==
    CASE kind = "COMPLETE" -> "COMPLETE"
      [] kind = "issues"   -> "ISSUES"
      [] kind = "maybe"    -> "ISSUES"

to_uppercase(kind) ==
    CASE kind = "COMPLETE" -> "COMPLETE"
      [] kind = "issues"   -> "ISSUES"
      [] kind = "maybe"    -> "MAYBE"

to_lowercase(kind) ==
    CASE kind = "COMPLETE" -> "complete"
      [] kind = "ISSUES"   -> "issues"
      [] kind = "MAYBE"    -> "maybe"

\* Mutant: the scan runs forward and finds the first Pending attempt.
LastPendingAttempt_First(attempts, i) ==
    IF \E j \in 1..i : attempts[j].outcome.type = "pending"
    THEN CHOOSE j \in 1..i : /\ attempts[j].outcome.type = "pending"
                             /\ \A k \in 1..(j - 1) : attempts[k].outcome.type /= "pending"
    ELSE 0

\* attempts.iter_mut().rev().find(|a| a.outcome is Pending): its index, or 0.
RECURSIVE LastPendingAttempt(_, _)
LastPendingAttempt(attempts, i) ==
    IF i = 0 THEN 0
    ELSE IF attempts[i].outcome.type = "pending" THEN i
    ELSE LastPendingAttempt(attempts, i - 1)

\* Mutant: gate_approved_at is stamped by every decision, ISSUES included.
decide_run_StampsIssues(session_id, decision, got, putFails, t) ==
    IF got.err THEN Answer("error", "storage", None)
    ELSE IF ~IsSome(got.val) THEN Answer("error", "session_not_found", None)
    ELSE LET state == Unwrap(got.val)
             decision_upper == to_uppercase(decision)
         IN
    IF decision_upper \notin {"COMPLETE", "ISSUES"}
    THEN Answer("error", "invalid_decision", None)
    ELSE LET new_decision ==
                IF decision_upper = "COMPLETE" THEN DecisionComplete ELSE DecisionIssues
             s1 == [state EXCEPT
                      !.review.decision_history =
                          Append(@, [decision |-> state.review.decision, timestamp |-> t]),
                      !.trace = Append(@, TraceEvent("roz_decision", decision_upper))]
             s2 == [s1 EXCEPT !.review.gate_approved_at = Some(t)]
             i  == LastPendingAttempt(s2.review.attempts, Len(s2.review.attempts))
             s3 == IF i = 0 THEN s2
                   ELSE [s2 EXCEPT !.review.attempts[i].outcome =
                            [type          |-> "success",
                             decision_type |-> to_lowercase(decision_upper),
                             blocks_needed |-> s2.review.block_count]]
             s4 == [s3 EXCEPT !.review.decision = new_decision, !.updated_at = t]
         IN IF putFails THEN Answer("error", "storage", Some(s4))
            ELSE Answer("ok", "recorded", Some(s4))

\* decide::run; the answer's verdict is "ok" or the error returned.
decide_run(session_id, decision, got, putFails, t) ==
    IF got.err THEN Answer("error", "storage", None)
    ELSE IF ~IsSome(got.val) THEN Answer("error", "session_not_found", None)
    ELSE LET state == Unwrap(got.val)
             decision_upper == to_uppercase(decision)
         IN
    IF decision_upper \notin {"COMPLETE", "ISSUES"}
    THEN Answer("error", "invalid_decision", None)
    ELSE LET new_decision ==
                IF decision_upper = "COMPLETE" THEN DecisionComplete ELSE DecisionIssues
             s1 == [state EXCEPT
                      !.review.decision_history =
                          Append(@, [decision |-> state.review.decision, timestamp |-> t]),
                      !.trace = Append(@, TraceEvent("roz_decision", decision_upper))]
             s2 == IF decision_upper = "COMPLETE"
                   THEN [s1 EXCEPT !.review.gate_approved_at = Some(t)]
                   ELSE s1
             i  == LastPendingAttempt(s2.review.attempts, Len(s2.review.attempts))
             s3 == IF i = 0 THEN s2
                   ELSE [s2 EXCEPT !.review.attempts[i].outcome =
                            [type          |-> "success",
                             decision_type |-> to_lowercase(decision_upper),
                             blocks_needed |-> s2.review.block_count]]
             s4 == [s3 EXCEPT !.review.decision = new_decision, !.updated_at = t]
         IN IF putFails THEN Answer("error", "storage", Some(s4))
            ELSE Answer("ok", "recorded", Some(s4))

----------------------------------------------------------------------------
(* Configurations.                                                         *)

\* Tool names the host may send, as character sequences.
ToolNames == { <<"t", "c">>, <<"x">> }

\* review.gates.tools: the specific pattern listed before the general one.
GateTools == << <<"t", "c">>, <<"t", "*">> >>

\* approval_ttl_seconds values: none, or zero seconds (expired as soon as the
\* clock passes gate_approved_at).
TtlChoices == {None, Some(0)}

ConfigOf(max_blocks, scope, ttl, tools, max_events) ==
    [ review          |-> [gates |-> [tools                |-> tools,
                                      approval_scope       |-> scope,
                                      approval_ttl_seconds |-> ttl]],
      circuit_breaker |-> [max_blocks |-> max_blocks],
      templates       |-> TemplateConfigDefault,
      trace           |-> [max_events |-> max_events] ]

\* Config::default()
ConfigDefault == ConfigOf(DefaultMaxBlocks, "prompt", None, <<>>, DefaultMaxEvents)

\* handle_stop: the stop handler dispatch_hook calls.
handle_stop(input, got, t, template_id) ==
    handle_stop_with_config(input, got, ConfigDefault, t, template_id)

----------------------------------------------------------------------------
(* Invocations.  Each hook call is one process doing one get_session, its  *)
(* handler and at most one put_session; sequential invocations are atomic  *)
(* steps.  getFails / putFails tell whether the store fails the call.      *)

NoInput == [none |-> TRUE]

ObsInit == [s \in SessionIds |-> [blocks |-> 0, enabledStops |-> 0, tripApproved |-> FALSE]]

\* The trace of a session is the one sequence every invocation appends to;
\* where compaction shortens it, the decisions and #roz prompts recorded so
\* far bound the run.
CanGrow(s) ==
    IF IsSome(store[s])
    THEN /\ Len(Unwrap(store[s]).trace) < MaxTrace
         /\ Len(Unwrap(store[s]).review.decision_history)
              + Len(Unwrap(store[s]).review.user_prompts) < MaxTrace
    ELSE TRUE

Commit(s, ans, putFails) ==
    store' = IF IsSome(ans.put) /\ ~putFails
             THEN [store EXCEPT ![s] = ans.put]
             ELSE store

Report(op, s, input, ans, putFails) ==
    out' = [ op        |-> op,
             sid       |-> s,
             input     |-> input,
             verdict   |-> ans.verdict,
             reason    |-> ans.reason,
             getFailed |-> ans.reason = "storage_error",
             putFailed |-> putFails /\ IsSome(ans.put) ]

SessionStart(s, getFails, putFails) ==
    /\ CanGrow(s)
    /\ LET input == [session_id |-> s, source |-> "startup"]
           ans   == handle_session_start(input, GetResult(s, getFails), now)
       IN /\ Commit(s, ans, putFails)
          /\ Report("session-start", s, NoInput, ans, putFails)
    /\ UNCHANGED <<now, config, obs, fsVars>>

UserPrompt(s, prompt, getFails, putFails) ==
    /\ CanGrow(s)
    /\ LET input == [session_id |-> s, prompt |-> prompt]
           ans   == handle_user_prompt(input, GetResult(s, getFails), now)
       IN /\ Commit(s, ans, putFails)
          /\ Report("user-prompt", s, NoInput, ans, putFails)
    /\ UNCHANGED <<now, config, obs, fsVars>>

\* The observer counts up to one past the longest trace and stays there (a
\* store that fails every put_session never lengthens the trace).
Count(n) == IF n <= MaxTrace THEN n + 1 ELSE n

ObsStop(s, got, ans) ==
    LET counted == /\ ~got.err /\ IsSome(got.val)
                   /\ Unwrap(got.val).review.enabled
                   /\ Unwrap(got.val).review.decision.type /= "complete"
    IN obs' = [obs EXCEPT
                 ![s].blocks = IF ans.verdict = "block" THEN Count(@) ELSE @,
                 ![s].enabledStops = IF counted THEN Count(@) ELSE @,
                 ![s].tripApproved =
                     @ \/ (/\ ans.verdict = "approve"
                           /\ IsSome(ans.put)
                           /\ Unwrap(ans.put).review.circuit_breaker_tripped)]

Stop(s, getFails, putFails) ==
    /\ CanGrow(s)
    /\ \E order \in Orders(config.templates.weights), nanos \in {0} :
         LET got == GetResult(s, getFails)
             ans == handle_stop_with_config([session_id |-> s], got, config, now,
                        select_template(config.templates, order, nanos))
         IN /\ Commit(s, ans, putFails)
            /\ Report("stop", s, NoInput, ans, putFails)
            /\ ObsStop(s, got, ans)
    /\ UNCHANGED <<now, config, fsVars>>

\* `hook stop`: cli::hook::run hands the name to dispatch_hook, which calls
\* handle_stop; the loaded configuration takes no part.
DispatchStop(s, getFails, putFails) ==
    /\ CanGrow(s)
    /\ \E order \in Orders(ConfigDefault.templates.weights), nanos \in {0} :
         LET got == GetResult(s, getFails)
             ans == handle_stop([session_id |-> s], got, now,
                        select_template(ConfigDefault.templates, order, nanos))
         IN /\ Commit(s, ans, putFails)
            /\ Report("stop", s, NoInput, ans, putFails)
            /\ ObsStop(s, got, ans)
    /\ UNCHANGED <<now, config, fsVars>>

StartedChoices == {None} \cup {Some(t) : t \in Times}

SubagentInput(type, prompt, started) ==
    [subagent_type |-> type, subagent_prompt |-> prompt, subagent_started_at |-> started]

\* The reviewer's own stop with every start time, and one call of each other kind.
SubagentInputs ==
    { SubagentInput(Some("roz:roz"), Some(<<"SESSION_ID", "=", " ", "S1">>), st) :
        st \in StartedChoices }
    \cup { SubagentInput(Some("roz:roz"), Some(<<"SESSION_ID", ":", "S9">>), None),
           SubagentInput(Some("roz:roz"), Some(<<"review", "S1">>), None),
           SubagentInput(Some("roz:roz"), None, None),
           SubagentInput(Some("general"), Some(<<"SESSION_ID", "=", " ", "S1">>), None),
           SubagentInput(None, None, None) }

\* out.input carries the start of the execution window when the handler
\* compared the decision time with it.
SubagentStop(input, getFails) ==
    /\ LET ans == handle_subagent_stop(input, getFails, now)
           started == IF IsSome(input.subagent_started_at)
                      THEN Unwrap(input.subagent_started_at)
                      ELSE now - FallbackWindowSeconds
       IN Report("subagent-stop", "none",
                 IF ans.reason \in {"before_start", "after_end", "in_window"}
                 THEN [started |-> started] ELSE NoInput,
                 ans, FALSE)
    /\ UNCHANGED <<store, now, config, obs, fsVars>>

\* What Utc::now() may read in the subagent-stop process, relative to the
\* clock that stamped the records: the wall clock stepped back by up to one
\* second more than the buffer, or the reviewer's stop arriving up to one
\* second more than the fallback window later.
ClockOffsets ==
    {0 - BufferSeconds - 1, 0 - BufferSeconds, 0,
     FallbackWindowSeconds, FallbackWindowSeconds + 1}

\* subagent-stop whose process reads the clock as t.
SubagentStopAt(input, getFails, t) ==
    /\ LET ans == handle_subagent_stop(input, getFails, t)
           started == IF IsSome(input.subagent_started_at)
                      THEN Unwrap(input.subagent_started_at)
                      ELSE t - FallbackWindowSeconds
       IN Report("subagent-stop", "none",
                 IF ans.reason \in {"before_start", "after_end", "in_window"}
                 THEN [started |-> started] ELSE NoInput,
                 ans, FALSE)
    /\ UNCHANGED <<store, now, config, obs, fsVars>>

PreToolUse(s, tool, getFails, putFails) ==
    /\ CanGrow(s)
    /\ LET input == [session_id |-> s, tool_name |-> Some(tool), tool_input |-> None]
           ans   == handle_pre_tool_use(input, config, getFails, putFails, now)
       IN /\ Commit(s, ans, putFails)
          /\ Report("pre-tool-use", s, NoInput, ans, putFails)
    /\ UNCHANGED <<now, config, obs, fsVars>>

\* keep_end = max_events - keep_start - 1 is computed in usize and goes below
\* zero.
KeepEndUnderflows(max_events) ==
    max_events - Min2(KeepStartMax, max_events \div 2) - 1 < 0

\* pre-tool-use as either build runs it.  With overflow checks (the dev
\* profile) an underflowing keep_end panics: the process dies before
\* put_session and prints no answer.  Without them (the release profile)
\* keep_end wraps, as add_trace_event has it.
PreToolUseBuild(s, tool, overflowChecks) ==
    /\ CanGrow(s)
    /\ LET input  == [session_id |-> s, tool_name |-> Some(tool), tool_input |-> None]
           ans    == handle_pre_tool_use(input, config, FALSE, FALSE, now)
           panics == /\ overflowChecks
                     /\ IsSome(ans.put)
                     /\ Len(Unwrap(ans.put).trace) > config.trace.max_events
                     /\ KeepEndUnderflows(config.trace.max_events)
       IN IF panics
          THEN /\ store' = store
               /\ out' = [ op |-> "pre-tool-use", sid |-> s, input |-> NoInput,
                           verdict |-> "panic", reason |-> "subtract_overflow",
                           getFailed |-> FALSE, putFailed |-> FALSE ]
          ELSE /\ Commit(s, ans, FALSE)
               /\ Report("pre-tool-use", s, NoInput, ans, FALSE)
    /\ UNCHANGED <<now, config, obs, fsVars>>

Decide(s, kind, getFails, putFails) ==
    /\ CanGrow(s)
    /\ LET ans == decide_run(s, kind, GetResult(s, getFails), putFails, now)
       IN /\ Commit(s, ans, putFails)
          /\ Report("decide", s, NoInput, ans, putFails)
    /\ UNCHANGED <<now, config, obs, fsVars>>

\* Time passes between invocations.
Tick ==
    /\ now < MaxTime
    /\ now' = now + 1
    /\ UNCHANGED <<store, config, out, obs, fsVars>>

----------------------------------------------------------------------------
(* The storage backends, one call at a time: src/storage/file.rs and       *)
(* src/storage/memory.rs behind the MessageStore trait.                    *)

StoreIds == {"a", "b"}

\* FileBackend::session_path: sessions/<session_id>.json
session_path(session_id) == <<session_id, "json">>

\* Path::with_extension
with_extension(path, ext) == <<path[1], ext>>

FileNames == {<<id, ext>> : id \in StoreIds, ext \in {"json", "tmp"}}

\* The sessions directory FileBackend::new creates.
EmptyDir == [n \in FileNames |-> None]

\* Fields of ReviewState that serde leaves out of the text when None.
OptionalReviewKeys == {"gate_trigger", "gate_approved_at", "review_started_at"}

\* Fields of ReviewState without #[serde(default)] that are not an Option.
RequiredReviewKeys ==
    {"enabled", "decision", "decision_history", "user_prompts", "block_count"}

AllReviewKeys ==
    RequiredReviewKeys \cup OptionalReviewKeys
        \cup {"last_prompt_at", "circuit_breaker_tripped", "attempts"}

SessionKeys == {"session_id", "review", "trace", "created_at", "updated_at"}

\* #[derive(Serialize)] of ReviewState: the JSON object, key by key.
SerializeReview(r) ==
    LET keys == RequiredReviewKeys \cup {"last_prompt_at", "circuit_breaker_tripped"}
                  \cup {k \in OptionalReviewKeys : IsSome(r[k])}
                  \cup (IF r.attempts /= <<>> THEN {"attempts"} ELSE {})
    IN [k \in keys |-> IF k \in OptionalReviewKeys THEN Unwrap(r[k]) ELSE r[k]]

\* serde_json::to_string_pretty(state) as the JSON document it writes.
SerializeSession(state) ==
    [kind  |-> "json",
     value |-> [k \in SessionKeys |->
                  IF k = "review" THEN SerializeReview(state.review) ELSE state[k]]]

\* #[derive(Deserialize)] of ReviewState from a JSON object that has the
\* required keys.
DeserializeReview(o) ==
    [k \in AllReviewKeys |->
        IF k \in OptionalReviewKeys
        THEN (IF k \in DOMAIN o THEN Some(o[k]) ELSE None)
        ELSE IF k \in DOMAIN o THEN o[k]
        ELSE IF k = "last_prompt_at" THEN None
        ELSE IF k = "circuit_breaker_tripped" THEN FALSE
        ELSE <<>>]

\* serde_json::from_str::<SessionState>(&contents)
DeserializeSession(text) ==
    IF text.kind /= "json" THEN [err |-> TRUE, val |-> None]
    ELSE IF ~(SessionKeys \subseteq DOMAIN text.value) THEN [err |-> TRUE, val |-> None]
    ELSE IF ~(RequiredReviewKeys \subseteq DOMAIN text.value.review)
    THEN [err |-> TRUE, val |-> None]
    ELSE [err |-> FALSE,
          val |-> Some([k \in SessionKeys |->
                          IF k = "review" THEN DeserializeReview(text.value.review)
                          ELSE text.value[k]])]

\* What a session file may hold that is not a session: nothing, the start of
\* a document, bytes that are not JSON, bytes that are not UTF-8, and a JSON
\* document of another schema.
CorruptTexts ==
    { [kind |-> k, value |-> [none |-> TRUE]] :
        k \in {"empty", "truncated", "garbage", "invalid_utf8"} }
    \cup { [kind |-> "json", value |-> [session_id |-> "a"]] }

\* fs::read_to_string
read_to_string(text) ==
    IF text.kind = "invalid_utf8" THEN [err |-> TRUE, val |-> None]
    ELSE [err |-> FALSE, val |-> Some(text)]

\* fs::write(name, contents): the file is created or truncated and written.
fs_write(dir, name, contents) == [dir EXCEPT ![name] = Some(contents)]

\* fs::rename(from, to): the file takes the new name; what had it is gone.
fs_rename(dir, from, to) == [dir EXCEPT ![to] = dir[from], ![from] = None]

\* fs::remove_file
fs_remove_file(dir, name) == [dir EXCEPT ![name] = None]

\* Mutant: the text is written to <id>.tmp and never renamed.
FileBackend_put_session_NoRename(dir, state) ==
    fs_write(dir, with_extension(session_path(state.session_id), "tmp"),
             SerializeSession(state))

\* FileBackend::put_session, run to its end with no other process at work.
FileBackend_put_session(dir, state) ==
    LET path     == session_path(state.session_id)
        temp     == with_extension(path, "tmp")
        contents == SerializeSession(state)
    IN fs_rename(fs_write(dir, temp, contents), temp, path)

\* Mutant: a session file that does not read or parse counts as missing.
FileBackend_get_session_CorruptIsMissing(dir, session_id) ==
    LET path == session_path(session_id) IN
    IF ~IsSome(dir[path]) THEN [err |-> FALSE, val |-> None]
    ELSE LET contents == read_to_string(Unwrap(dir[path])) IN
         IF contents.err THEN [err |-> FALSE, val |-> None]
         ELSE IF DeserializeSession(Unwrap(contents.val)).err
         THEN [err |-> FALSE, val |-> None]
         ELSE DeserializeSession(Unwrap(contents.val))

\* FileBackend::get_session
FileBackend_get_session(dir, session_id) ==
    LET path == session_path(session_id) IN
    IF ~IsSome(dir[path]) THEN [err |-> FALSE, val |-> None]
    ELSE LET contents == read_to_string(Unwrap(dir[path])) IN
         IF contents.err THEN [err |-> TRUE, val |-> None]
         ELSE DeserializeSession(Unwrap(contents.val))

\* FileBackend::delete_session
FileBackend_delete_session(dir, session_id) ==
    LET path == session_path(session_id) IN
    IF IsSome(dir[path]) THEN fs_remove_file(dir, path) ELSE dir

\* Mutant: a put keeps the decision of a stored record that has seen more
\* decisions than the record being written.
MemoryBackend_put_session_KeepsDecision(sessions, state) ==
    LET old == sessions[state.session_id] IN
    IF /\ IsSome(old)
       /\ Len(Unwrap(old).review.decision_history) > Len(state.review.decision_history)
    THEN [sessions EXCEPT ![state.session_id] =
            Some([state EXCEPT
                    !.review.decision = Unwrap(old).review.decision,
                    !.review.gate_approved_at = Unwrap(old).review.gate_approved_at,
                    !.review.decision_history = Unwrap(old).review.decision_history])]
    ELSE [sessions EXCEPT ![state.session_id] = Some(state)]

\* MemoryBackend::put_session: HashMap::insert
MemoryBackend_put_session(sessions, state) ==
    [sessions EXCEPT ![state.session_id] = Some(state)]

\* MemoryBackend::get_session
MemoryBackend_get_session(sessions, session_id) ==
    [err |-> FALSE, val |-> sessions[session_id]]

\* MemoryBackend::delete_session: HashMap::remove
MemoryBackend_delete_session(sessions, session_id) ==
    [sessions EXCEPT ![session_id] = None]

SessionSummary(state) ==
    [session_id   |-> state.session_id,
     first_prompt |-> IF state.review.user_prompts = <<>> THEN None
                      ELSE Some(state.review.user_prompts[1]),
     created_at   |-> state.created_at,
     event_count  |-> Len(state.trace)]

\* Where a stable sort by created_at descending puts x in a sorted sequence:
\* after every element that is not older than x.
RECURSIVE InsertByCreatedDesc(_, _)
InsertByCreatedDesc(sorted, x) ==
    IF sorted = <<>> THEN <<x>>
    ELSE IF Head(sorted).created_at >= x.created_at
    THEN <<Head(sorted)>> \o InsertByCreatedDesc(Tail(sorted), x)
    ELSE <<x>> \o sorted

\* sort_by(|a, b| b.created_at.cmp(&a.created_at)), a stable sort.
RECURSIVE sort_by_created_desc(_)
sort_by_created_desc(seq) ==
    IF seq = <<>> THEN <<>>
    ELSE InsertByCreatedDesc(sort_by_created_desc(SubSeq(seq, 1, Len(seq) - 1)),
                             seq[Len(seq)])

\* Vec::truncate
truncate(seq, limit) == IF Len(seq) > limit THEN SubSeq(seq, 1, limit) ELSE seq

\* The orders in which a set may be enumerated (fs::read_dir, HashMap::values).
EnumerationsOf(S) ==
    { o \in [1..Cardinality(S) -> S] :
        \A i, j \in 1..Cardinality(S) : i /= j => o[i] /= o[j] }

\* The loop of FileBackend::list_sessions over the directory entries: a file
\* is summarized when its extension is json (or, with anyExtension, whatever
\* it is), it reads as a string and parses as a SessionState.
RECURSIVE ListScan(_, _, _)
ListScan(dir, entries, anyExtension) ==
    IF entries = <<>> THEN <<>>
    ELSE LET path     == Head(entries)
             rest     == ListScan(dir, Tail(entries), anyExtension)
             contents == read_to_string(Unwrap(dir[path]))
             parsed   == DeserializeSession(Unwrap(contents.val))
         IN IF (anyExtension \/ path[2] = "json") /\ ~contents.err /\ ~parsed.err
            THEN <<SessionSummary(Unwrap(parsed.val))>> \o rest
            ELSE rest

\* Mutant: every file of the directory is read, whatever its extension.
FileBackend_list_sessions_AnyExtension(dir, limit, entries) ==
    truncate(sort_by_created_desc(ListScan(dir, entries, TRUE)), limit)

\* FileBackend::list_sessions; entries is the order read_dir yields.
FileBackend_list_sessions(dir, limit, entries) ==
    truncate(sort_by_created_desc(ListScan(dir, entries, FALSE)), limit)

\* MemoryBackend::list_sessions; ids is the order HashMap::values yields.
MemoryBackend_list_sessions(sessions, limit, ids) ==
    truncate(sort_by_created_desc(
                 [i \in 1..Len(ids) |-> SessionSummary(Unwrap(sessions[ids[i]]))]),
             limit)

DirEntries(dir) == EnumerationsOf({n \in DOMAIN dir : IsSome(dir[n])})

MapEntries(sessions) == EnumerationsOf({id \in DOMAIN sessions : IsSome(sessions[id])})

\* The MessageStore a command holds: [kind, data], data being the HashMap of
\* a MemoryBackend or the sessions directory of a FileBackend.
get_session(backend, session_id) ==
    IF backend.kind = "file" THEN FileBackend_get_session(backend.data, session_id)
    ELSE MemoryBackend_get_session(backend.data, session_id)

delete_session(backend, session_id) ==
    [backend EXCEPT !.data =
        IF backend.kind = "file" THEN FileBackend_delete_session(@, session_id)
        ELSE MemoryBackend_delete_session(@, session_id)]

list_sessions(backend, limit, order) ==
    IF backend.kind = "file" THEN FileBackend_list_sessions(backend.data, limit, order)
    ELSE MemoryBackend_list_sessions(backend.data, limit, order)

EnumerationOrders(backend) ==
    IF backend.kind = "file" THEN DirEntries(backend.data) ELSE MapEntries(backend.data)

\* list_sessions(10000) of clean_sessions.
CleanListLimit == 10000

\* The loop of clean_sessions over the summaries; checkActive is TRUE in the
\* code.  A failing get_session ends the command with what was deleted so far.
RECURSIVE CleanLoop(_, _, _, _)
CleanLoop(backend, sessions, cutoff, checkActive) ==
    IF sessions = <<>> THEN [backend |-> backend, removed |-> 0, err |-> FALSE]
    ELSE LET summary == Head(sessions)
             got     == get_session(backend, summary.session_id)
         IN IF summary.created_at >= cutoff
            THEN CleanLoop(backend, Tail(sessions), cutoff, checkActive)
            ELSE IF got.err THEN [backend |-> backend, removed |-> 0, err |-> TRUE]
            ELSE IF /\ checkActive
                    /\ IsSome(got.val)
                    /\ Unwrap(got.val).review.enabled
                    /\ Unwrap(got.val).review.decision = DecisionPending
            THEN CleanLoop(backend, Tail(sessions), cutoff, checkActive)
            ELSE LET rest == CleanLoop(delete_session(backend, summary.session_id),
                                       Tail(sessions), cutoff, checkActive)
                 IN [rest EXCEPT !.removed = @ + 1]

\* Mutant: old sessions are deleted whether or not their review is pending.
clean_sessions_NoActiveCheck(backend, before, t, order) ==
    CleanLoop(backend, list_sessions(backend, CleanListLimit, order), t - before, FALSE)

\* clean_sessions; before is the age in seconds (0 with --all), t is Utc::now().
clean_sessions(backend, before, t, order) ==
    CleanLoop(backend, list_sessions(backend, CleanListLimit, order), t - before, TRUE)

\* Records the hooks hand to put_session: a session as session-start creates
\* it, after a #roz prompt and a blocked stop, and after a decide COMPLETE.
StartedAt(id, t) ==
    Unwrap(handle_session_start([session_id |-> id, source |-> "startup"],
                                [err |-> FALSE, val |-> None], t).put)

ActiveAt(id, t) ==
    LET prompted == Unwrap(handle_user_prompt(
                        [session_id |-> id, prompt |-> <<" ", "#", "r", "o", "z">>],
                        [err |-> FALSE, val |-> Some(StartedAt(id, t))], t).put)
    IN Unwrap(handle_stop_with_config([session_id |-> id],
                                      [err |-> FALSE, val |-> Some(prompted)],
                                      ConfigDefault, t, "default").put)

ResolvedAt(id, t) ==
    Unwrap(decide_run(id, "COMPLETE", [err |-> FALSE, val |-> Some(ActiveAt(id, t))],
                      FALSE, t).put)

PutStates ==
    UNION { {StartedAt(id, 0), ResolvedAt(id, 0)} \cup {ActiveAt(id, t) : t \in Times} :
            id \in StoreIds }

\* The limits list_sessions is called with.
MaxLimit == 2

\* Both backends receive the same calls; obs keeps, per id and backend, the
\* record of the last put_session that no other write to the id has followed.
StoreObsInit == [id \in StoreIds |-> [memory |-> None, file |-> None]]

MemoryStore == [kind |-> "memory", data |-> store]

FileStore == [kind |-> "file", data |-> sessionsDir]

StorePut(state) ==
    /\ store' = MemoryBackend_put_session(store, state)
    /\ sessionsDir' = FileBackend_put_session(sessionsDir, state)
    /\ obs' = [obs EXCEPT ![state.session_id] = [memory |-> Some(state), file |-> Some(state)]]
    /\ out' = [op |-> "put", sid |-> state.session_id, arg |-> 0,
               memory |-> [err |-> FALSE], file |-> [err |-> FALSE]]
    /\ UNCHANGED <<now, config, fsDir, fsInodes, procs>>

StoreGet(id) ==
    /\ out' = [op |-> "get", sid |-> id, arg |-> 0,
               memory |-> get_session(MemoryStore, id),
               file   |-> get_session(FileStore, id)]
    /\ UNCHANGED <<store, sessionsDir, obs, now, config, fsDir, fsInodes, procs>>

StoreList(limit, ids, entries) ==
    /\ out' = [op |-> "list", sid |-> "none", arg |-> limit,
               memory |-> [err |-> FALSE, val |-> list_sessions(MemoryStore, limit, ids)],
               file   |-> [err |-> FALSE, val |-> list_sessions(FileStore, limit, entries)]]
    /\ UNCHANGED <<store, sessionsDir, obs, now, config, fsDir, fsInodes, procs>>

\* A put_session whose process dies between fs::write and fs::rename.
CrashedPut(state) ==
    /\ sessionsDir' = fs_write(sessionsDir,
                               with_extension(session_path(state.session_id), "tmp"),
                               SerializeSession(state))
    /\ out' = [op |-> "crashed-put", sid |-> state.session_id, arg |-> 0,
               memory |-> [err |-> FALSE], file |-> [err |-> TRUE]]
    /\ UNCHANGED <<store, obs, now, config, fsDir, fsInodes, procs>>

\* Something other than roz leaves a session file that is not a session.
CorruptFile(id, text) ==
    /\ sessionsDir' = fs_write(sessionsDir, session_path(id), text)
    /\ obs' = [obs EXCEPT ![id].file = None]
    /\ out' = [op |-> "corrupt", sid |-> id, arg |-> 0,
               memory |-> [err |-> FALSE], file |-> [err |-> FALSE]]
    /\ UNCHANGED <<store, now, config, fsDir, fsInodes, procs>>

\* `roz clean --before <before seconds>` (before = 0: --all) on either backend.
Clean(before, ids, entries) ==
    LET m == clean_sessions(MemoryStore, before, now, ids)
        f == clean_sessions(FileStore, before, now, entries)
    IN /\ store' = m.backend.data
       /\ sessionsDir' = f.backend.data
       /\ obs' = [id \in StoreIds |->
                    [memory |-> IF store'[id] = None THEN None ELSE obs[id].memory,
                     file   |-> IF sessionsDir'[session_path(id)] = None
                                THEN None ELSE obs[id].file]]
       /\ out' = [op |-> "clean", sid |-> "none", arg |-> before,
                  memory |-> [err |-> m.err, val |-> m.removed],
                  file   |-> [err |-> f.err, val |-> f.removed]]
       /\ UNCHANGED <<now, config, fsDir, fsInodes, procs>>

----------------------------------------------------------------------------
(* The file backend: one <id>.json per session, written through <id>.tmp.  *)
(* Several processes (hook invocations the host runs at the same time) work *)
(* on the same directory; each system call is one step.                    *)

Writers == {"w1", "w2"}

Readers == {"r"}

JsonPath == "json"

TempPath == "tmp"

Hole == [rec |-> <<"hole", 0>>, part |-> 0]

InitialRecord == <<"init", 0>>

\* serde_json::to_string_pretty(state): the text of a record, as the chunks
\* write_all hands to write().
to_string_pretty(rec) == [i \in 1..NChunks |-> [rec |-> rec, part |-> i]]

WrittenRecords == {InitialRecord} \cup {<<w, k>> : w \in Writers, k \in 1..MaxPuts}

\* serde_json::from_str(&contents): the record when the text is the text of one
\* record; an error when the text is cut short or has a hole; text that is
\* complete but stitched from two records may fail or parse as their mixture.
from_str(contents) ==
    IF \E rec \in WrittenRecords : contents = to_string_pretty(rec)
    THEN {[kind |-> "record", rec |-> contents[1].rec]}
    ELSE IF /\ Len(contents) = NChunks
            /\ \A i \in 1..NChunks : contents[i] /= Hole /\ contents[i].part = i
    THEN {[kind |-> "error", rec |-> <<"none", 0>>], [kind |-> "mixed", rec |-> <<"none", 0>>]}
    ELSE {[kind |-> "error", rec |-> <<"none", 0>>]}

\* write() of one chunk at offset pos of a file; the gap a truncation by another
\* descriptor left before pos reads as a hole.
WriteAt(contents, pos, chunk) ==
    [i \in 1..(IF pos + 1 > Len(contents) THEN pos + 1 ELSE Len(contents)) |->
        IF i = pos + 1 THEN chunk
        ELSE IF i <= Len(contents) THEN contents[i]
        ELSE Hole]

WriterIdle == [pc |-> "idle", fd |-> 0, pos |-> 0, puts |-> 0, failed |-> FALSE]

ReaderIdle == [pc |-> "idle", fd |-> 0, pos |-> 0, buf |-> <<>>,
               result |-> [kind |-> "none", rec |-> <<"none", 0>>], gets |-> 0]

\* FileBackend::new on an empty directory.
FsInit ==
    /\ fsDir = [p \in {JsonPath, TempPath} |-> None]
    /\ fsInodes = <<>>
    /\ procs = [p \in Writers \cup Readers |->
                  IF p \in Writers THEN WriterIdle ELSE ReaderIdle]
    /\ sessionsDir = EmptyDir

\* The directory after an earlier put_session has completed.
FsCommitted ==
    /\ fsDir = [p \in {JsonPath, TempPath} |->
                  IF p = JsonPath THEN Some(1) ELSE None]
    /\ fsInodes = <<to_string_pretty(InitialRecord)>>
    /\ procs = [p \in Writers \cup Readers |->
                  IF p \in Writers THEN WriterIdle ELSE ReaderIdle]
    /\ sessionsDir = EmptyDir

\* put_session, fs::write(&temp, ..): File::create opens <id>.tmp with
\* O_CREAT | O_TRUNC, emptying the file another writer may have open.
PutCreate(w) ==
    /\ procs[w].pc = "idle"
    /\ procs[w].puts < MaxPuts
    /\ IF IsSome(fsDir[TempPath])
       THEN /\ fsInodes' = [fsInodes EXCEPT ![Unwrap(fsDir[TempPath])] = <<>>]
            /\ fsDir' = fsDir
            /\ procs' = [procs EXCEPT ![w] = [@ EXCEPT !.pc = "writing",
                                                       !.fd = Unwrap(fsDir[TempPath]),
                                                       !.pos = 0,
                                                       !.puts = @ + 1,
                                                       !.failed = FALSE]]
       ELSE /\ fsInodes' = Append(fsInodes, <<>>)
            /\ fsDir' = [fsDir EXCEPT ![TempPath] = Some(Len(fsInodes) + 1)]
            /\ procs' = [procs EXCEPT ![w] = [@ EXCEPT !.pc = "writing",
                                                       !.fd = Len(fsInodes) + 1,
                                                       !.pos = 0,
                                                       !.puts = @ + 1,
                                                       !.failed = FALSE]]
    /\ UNCHANGED <<sessionsDir, coreVars>>

\* put_session, fs::write(&temp, ..): write_all writes the text chunk by chunk
\* through the descriptor, at the descriptor's own offset.
PutWrite(w) ==
    /\ procs[w].pc = "writing"
    /\ LET text == to_string_pretty(<<w, procs[w].puts>>)
           pos  == procs[w].pos
       IN /\ fsInodes' = [fsInodes EXCEPT ![procs[w].fd] = WriteAt(@, pos, text[pos + 1])]
          /\ procs' = [procs EXCEPT ![w] =
                         [@ EXCEPT !.pos = pos + 1,
                                   !.pc = IF pos + 1 = NChunks THEN "written" ELSE "writing"]]
    /\ UNCHANGED <<fsDir, sessionsDir, coreVars>>

\* put_session, fs::rename(&temp, &path): whatever <id>.tmp names now becomes
\* <id>.json; the call fails when another writer has renamed it away.
PutRename(w) ==
    /\ procs[w].pc = "written"
    /\ IF IsSome(fsDir[TempPath])
       THEN /\ fsDir' = [fsDir EXCEPT ![JsonPath] = fsDir[TempPath], ![TempPath] = None]
            /\ procs' = [procs EXCEPT ![w] = [@ EXCEPT !.pc = "idle", !.fd = 0, !.pos = 0]]
       ELSE /\ fsDir' = fsDir
            /\ procs' = [procs EXCEPT ![w] = [@ EXCEPT !.pc = "idle", !.fd = 0, !.pos = 0,
                                                       !.failed = TRUE]]
    /\ UNCHANGED <<fsInodes, sessionsDir, coreVars>>

\* get_session, path.exists(): Ok(None) when there is no <id>.json.
GetExists(r) ==
    /\ procs[r].pc \in {"idle", "done"}
    /\ procs[r].gets < MaxGets
    /\ procs' = [procs EXCEPT ![r] =
                   IF IsSome(fsDir[JsonPath])
                   THEN [@ EXCEPT !.pc = "open", !.buf = <<>>, !.pos = 0, !.gets = @ + 1]
                   ELSE [@ EXCEPT !.pc = "done", !.buf = <<>>, !.pos = 0, !.gets = @ + 1,
                                  !.result = [kind |-> "none", rec |-> <<"none", 0>>]]]
    /\ UNCHANGED <<fsDir, fsInodes, sessionsDir, coreVars>>

\* get_session, fs::read_to_string(&path): open <id>.json.
GetOpen(r) ==
    /\ procs[r].pc = "open"
    /\ procs' = [procs EXCEPT ![r] =
                   IF IsSome(fsDir[JsonPath])
                   THEN [@ EXCEPT !.pc = "reading", !.fd = Unwrap(fsDir[JsonPath])]
                   ELSE [@ EXCEPT !.pc = "done",
                                  !.result = [kind |-> "error", rec |-> <<"none", 0>>]]]
    /\ UNCHANGED <<fsDir, fsInodes, sessionsDir, coreVars>>

\* get_session, fs::read_to_string(&path): read() chunk by chunk until end of
\* file, then serde_json::from_str on what was read.
GetRead(r) ==
    /\ procs[r].pc = "reading"
    /\ LET contents == fsInodes[procs[r].fd]
           pos      == procs[r].pos
       IN IF pos < Len(contents)
          THEN procs' = [procs EXCEPT ![r] = [@ EXCEPT !.buf = Append(@, contents[pos + 1]),
                                                       !.pos = pos + 1]]
          ELSE \E res \in from_str(procs[r].buf) :
                 procs' = [procs EXCEPT ![r] = [@ EXCEPT !.pc = "done", !.fd = 0,
                                                         !.result = res]]
    /\ UNCHANGED <<fsDir, fsInodes, sessionsDir, coreVars>>

----------------------------------------------------------------------------
(* Specifications.                                                         *)

InitCore(configs) ==
    /\ store = [s \in SessionIds |-> None]
    /\ now = 0
    /\ config \in configs
    /\ out = [op |-> "init", sid |-> "none", input |-> NoInput, verdict |-> "none",
              reason |-> "none", getFailed |-> FALSE, putFailed |-> FALSE]
    /\ obs = ObsInit
    /\ FsInit

\* Every max_blocks up to the bound, gates as ApprovalScope::default() has them.
Configs ==
    { ConfigOf(mb, "prompt", None, GateTools, DefaultMaxEvents) : mb \in 0..MaxBlocksBound }

\* Every approval scope and TTL, the breaker as CircuitBreakerConfig::default() has it.
GateConfigs ==
    { ConfigOf(DefaultMaxBlocks, sc, ttl, GateTools, DefaultMaxEvents) :
        sc \in {"session", "prompt", "tool"}, ttl \in TtlChoices }

Init == InitCore(Configs)

\* The invocations that read and write a session, with storage faults drawn from F.
NextOf(F) ==
    \/ \E s \in SessionIds, gf \in F, pf \in F : SessionStart(s, gf, pf)
    \/ \E s \in SessionIds, p \in Prompts, gf \in F, pf \in F : UserPrompt(s, p, gf, pf)
    \/ \E s \in SessionIds, gf \in F, pf \in F : Stop(s, gf, pf)
    \/ \E s \in SessionIds, tool \in ToolNames, gf \in F, pf \in F : PreToolUse(s, tool, gf, pf)
    \/ \E s \in SessionIds, k \in Kinds, gf \in F, pf \in F : Decide(s, k, gf, pf)
    \/ Tick

\* Sequential invocations of session-start, user-prompt, stop, pre-tool-use and
\* decide on a reliable store, under every max_blocks.
Next == NextOf({FALSE})

Spec == Init /\ [][Next]_vars

\* The same invocations under each approval scope, with and without a TTL.
InitSession == InitCore({c \in GateConfigs : c.review.gates.approval_scope = "session"})

SpecSession == InitSession /\ [][Next]_vars

InitPrompt == InitCore({c \in GateConfigs : c.review.gates.approval_scope = "prompt"})

SpecPrompt == InitPrompt /\ [][Next]_vars

\* The reviewer's subagent-stop among the other invocations, default configuration.
InitSubagent ==
    InitCore({ConfigOf(DefaultMaxBlocks, "prompt", None, GateTools, DefaultMaxEvents)})

NextSubagent ==
    \/ Next
    \/ \E input \in SubagentInputs : SubagentStop(input, FALSE)

SpecSubagent == InitSubagent /\ [][NextSubagent]_vars

\* The reviewer's subagent-stop with every clock reading, among the
\* invocations that create a session, reopen its review and record a decision.
NextWindow ==
    \/ \E s \in SessionIds : SessionStart(s, FALSE, FALSE)
    \/ \E s \in SessionIds, p \in {q \in Prompts : StartsWith(TrimStart(q), RozMarker)} :
         UserPrompt(s, p, FALSE, FALSE)
    \/ \E s \in SessionIds, k \in {"COMPLETE", "issues"} : Decide(s, k, FALSE, FALSE)
    \/ Tick
    \/ \E input \in SubagentInputs, d \in ClockOffsets : SubagentStopAt(input, FALSE, now + d)

SpecWindow == InitSubagent /\ [][NextWindow]_vars

\* The hooks dispatch_hook runs, and decide, at one instant, under every
\* configured max_blocks from 1 to the default.
DispatchConfigs ==
    { ConfigOf(mb, "prompt", None, GateTools, DefaultMaxEvents) : mb \in 1..DefaultMaxBlocks }

InitDispatch == InitCore(DispatchConfigs)

NextDispatch ==
    \/ \E s \in SessionIds : SessionStart(s, FALSE, FALSE)
    \/ \E s \in SessionIds, p \in Prompts : UserPrompt(s, p, FALSE, FALSE)
    \/ \E s \in SessionIds : DispatchStop(s, FALSE, FALSE)
    \/ \E s \in SessionIds, k \in Kinds : Decide(s, k, FALSE, FALSE)

SpecDispatch == InitDispatch /\ [][NextDispatch]_vars

\* The invocations that append to the trace under trace.max_events = 0, in
\* a build with and a build without overflow checks.
InitZero == InitCore({ConfigOf(DefaultMaxBlocks, "prompt", None, GateTools, 0)})

NextZero ==
    \/ \E s \in SessionIds : SessionStart(s, FALSE, FALSE)
    \/ \E s \in SessionIds, p \in Prompts : UserPrompt(s, p, FALSE, FALSE)
    \/ \E s \in SessionIds : Stop(s, FALSE, FALSE)
    \/ \E s \in SessionIds, tool \in ToolNames, b \in BOOLEAN : PreToolUseBuild(s, tool, b)
    \/ \E s \in SessionIds, k \in {"COMPLETE", "issues"} : Decide(s, k, FALSE, FALSE)

SpecZero == InitZero /\ [][NextZero]_vars

\* Calls on a MemoryBackend and on a FileBackend that starts with an empty
\* sessions directory.
InitStore ==
    /\ store = [id \in StoreIds |-> None]
    /\ sessionsDir = EmptyDir
    /\ obs = StoreObsInit
    /\ now = 0
    /\ config = ConfigDefault
    /\ out = [op |-> "init", sid |-> "none", arg |-> 0,
              memory |-> [err |-> FALSE], file |-> [err |-> FALSE]]
    /\ fsDir = <<>> /\ fsInodes = <<>> /\ procs = <<>>

\* put_session, get_session and list_sessions, with crashed writers and
\* corrupt files.
NextStore ==
    \/ \E state \in PutStates : StorePut(state)
    \/ \E id \in StoreIds : StoreGet(id)
    \/ \E limit \in 0..MaxLimit, ids \in MapEntries(store), entries \in DirEntries(sessionsDir) :
         StoreList(limit, ids, entries)
    \/ \E id \in StoreIds : CrashedPut(StartedAt(id, 0))
    \/ \E id \in StoreIds, text \in CorruptTexts : CorruptFile(id, text)

SpecStore == InitStore /\ [][NextStore]_vars

\* put_session and the clean command as time passes.
ClockTick ==
    /\ now < MaxTime
    /\ now' = now + 1
    /\ UNCHANGED <<store, sessionsDir, obs, out, config, fsDir, fsInodes, procs>>

NextClean ==
    \/ \E state \in PutStates : StorePut(state)
    \/ \E before \in Times, ids \in MapEntries(store), entries \in DirEntries(sessionsDir) :
         Clean(before, ids, entries)
    \/ \E id \in StoreIds, text \in CorruptTexts : CorruptFile(id, text)
    \/ ClockTick

SpecClean == InitStore /\ [][NextClean]_vars

\* Every invocation on a store whose get_session and put_session may fail.
NextFaulty ==
    \/ NextOf(BOOLEAN)
    \/ \E gf \in BOOLEAN :
         SubagentStop(SubagentInput(Some("roz:roz"), Some(<<"SESSION_ID", "=", " ", "S1">>), None),
                      gf)

InitFaulty ==
    InitCore({ConfigOf(MaxBlocksBound, "prompt", None, GateTools, DefaultMaxEvents)})

SpecFaulty == InitFaulty /\ [][NextFaulty]_vars

\* Gates under every approval scope with a breaker that trips at the first
\* stop, and with an empty gate list.
GateBreakerConfigs ==
    { ConfigOf(1, sc, None, GateTools, DefaultMaxEvents) :
        sc \in {"session", "prompt", "tool"} }
    \cup { ConfigOf(1, "prompt", None, <<>>, DefaultMaxEvents) }

InitGates == InitCore(GateBreakerConfigs)

SpecGates == InitGates /\ [][Next]_vars

\* The same invocations under a small trace.max_events.
TraceConfigs ==
    { ConfigOf(DefaultMaxBlocks, "prompt", None, GateTools, me) : me \in 1..MaxEventsBound }

InitTrace == InitCore(TraceConfigs)

\* The invocations that append to the trace, at one instant.
NextTrace ==
    \/ \E s \in SessionIds : SessionStart(s, FALSE, FALSE)
    \/ \E s \in SessionIds, p \in {q \in Prompts : StartsWith(TrimStart(q), RozMarker)} :
         UserPrompt(s, p, FALSE, FALSE)
    \/ \E s \in SessionIds : Stop(s, FALSE, FALSE)
    \/ \E s \in SessionIds, tool \in {t \in ToolNames : GlobMatches(GateTools[1], t)} :
         PreToolUse(s, tool, FALSE, FALSE)
    \/ \E s \in SessionIds, k \in {"COMPLETE", "issues"} : Decide(s, k, FALSE, FALSE)

SpecTrace == InitTrace /\ [][NextTrace]_vars

\* Concurrent put_session and get_session calls on one session id of the file
\* backend, from an empty directory or after a committed put.
InitFile ==
    /\ store = [s \in SessionIds |-> None]
    /\ now = 0
    /\ config = ConfigOf(DefaultMaxBlocks, "prompt", None, GateTools, DefaultMaxEvents)
    /\ out = [op |-> "init", sid |-> "none", input |-> NoInput, verdict |-> "none",
              reason |-> "none", getFailed |-> FALSE, putFailed |-> FALSE]
    /\ obs = ObsInit
    /\ (FsInit \/ FsCommitted)

NextFile ==
    \/ \E w \in Writers : PutCreate(w)
    \/ \E w \in Writers : PutWrite(w)
    \/ \E w \in Writers : PutRename(w)
    \/ \E r \in Readers : GetExists(r)
    \/ \E r \in Readers : GetOpen(r)
    \/ \E r \in Readers : GetRead(r)

SpecFile == InitFile /\ [][NextFile]_vars

----------------------------------------------------------------------------
(* Properties of the stop loop and the circuit breaker.                    *)

Exists(s) == IsSome(store[s])

Review(s) == Unwrap(store[s]).review

MaxBlocks == config.circuit_breaker.max_blocks

\* A reliable stop invocation on session s is the step being taken.
StopStep(s) == Stop(s, FALSE, FALSE)

\* C1: stop returns approve only if, when it is called, the session does not
\* exist, or review is not enabled, or the breaker is tripped, or block_count
\* has reached max_blocks (before the increment or with it), or the decision
\* is Complete.
C1_StopApprovesOnlyWhenAllowed ==
    [][\A s \in SessionIds :
         (StopStep(s) /\ out'.verdict = "approve") =>
            \/ ~Exists(s)
            \/ /\ Exists(s)
               /\ \/ ~Review(s).enabled
                  \/ Review(s).circuit_breaker_tripped
                  \/ Review(s).block_count >= MaxBlocks
                  \/ Review(s).block_count + 1 >= MaxBlocks
                  \/ Review(s).decision.type = "complete"]_vars

\* C1 witnesses: stop approved a Complete session that is enabled and below
\* the limit; and stop blocked an Issues session.
C1_Witness ==
    /\ out.op = "stop" /\ out.verdict = "approve" /\ out.reason = "complete"
    /\ Exists("S1")
    /\ Review("S1").enabled
    /\ ~Review("S1").circuit_breaker_tripped
    /\ Review("S1").block_count + 1 < MaxBlocks

\* C2 as stated: a stop on a session with decision Pending, enabled, breaker
\* not tripped and block_count < max_blocks returns block.
C2_PendingBelowLimitBlocks ==
    [][\A s \in SessionIds :
         (/\ StopStep(s)
          /\ Exists(s)
          /\ Review(s).decision.type = "pending"
          /\ Review(s).enabled
          /\ ~Review(s).circuit_breaker_tripped
          /\ Review(s).block_count < MaxBlocks)
         => out'.verdict = "block"]_vars

\* C4: a session receives at most max_blocks block verdicts, and once max_blocks
\* (and at least one) stops have run on the enabled, not Complete session, some
\* stop has returned approve with circuit_breaker_tripped = true.
C4_BreakerBoundsBlocks ==
    \A s \in SessionIds :
       /\ obs[s].blocks <= MaxBlocks
       /\ (obs[s].enabledStops >= MaxBlocks /\ obs[s].enabledStops >= 1)
            => obs[s].tripApproved

\* C4 witness: after #roz prompts and blocks, a stop approved by tripping.
C4_Witness ==
    /\ out.op = "stop" /\ out.verdict = "approve" /\ out.reason = "circuit_breaker"
    /\ obs["S1"].blocks >= 1
    /\ obs["S1"].tripApproved
    /\ Review("S1").circuit_breaker_tripped

C6_BlockCountNonDecreasing ==
    [][\A s \in SessionIds :
         Exists(s) => (Exists(s)' /\ Review(s)'.block_count >= Review(s).block_count)]_vars

\* C6 witness: block_count has been incremented twice.
C6_Witness ==
    /\ Exists("S1")
    /\ Review("S1").block_count >= 2
    /\ out.op = "decide"

----------------------------------------------------------------------------
(* The reviewer's execution window.                                        *)

\* The time at which the decide that recorded the current decision ran: decide
\* pushes the prior decision with its own `now` onto decision_history.
DecidedAt(s) ==
    Review(s).decision_history[Len(Review(s).decision_history)].timestamp

\* C3 as stated: when subagent-stop approves for the reviewer of an existing
\* session with a Complete or Issues decision, the decide that recorded the
\* decision ran at or after subagent_started_at and not later than now + 5 s.
C3_ApprovedDecisionIsInWindow ==
    (out.op = "subagent-stop" /\ out.reason = "in_window") =>
        /\ DecidedAt("S1") >= out.input.started
        /\ DecidedAt("S1") <= now + BufferSeconds

----------------------------------------------------------------------------
(* Fail-open.                                                              *)

HookNames == {"session-start", "user-prompt", "stop", "subagent-stop", "pre-tool-use"}

\* C8 as stated: a hook invocation during which get_session or put_session
\* fails answers approve (allow for pre-tool-use).
C8_FailOpenOnStorageFailure ==
    (out.op \in HookNames /\ (out.getFailed \/ out.putFailed)) =>
        out.verdict \in {"approve", "allow"}

----------------------------------------------------------------------------
(* Gate approval.                                                          *)

Gates == config.review.gates

MatchesGate(tool) == IsSome(find_matching_pattern(tool, Gates.tools))

\* A reliable pre-tool-use call for a gated tool on a session whose breaker is
\* not tripped (the session may not exist yet).
GatedCall(s, tool) ==
    /\ PreToolUse(s, tool, FALSE, FALSE)
    /\ MatchesGate(tool)
    /\ Exists(s) => ~Review(s).circuit_breaker_tripped

NotExpired(s) ==
    \/ ~IsSome(Gates.approval_ttl_seconds)
    \/ now <= Unwrap(Review(s).gate_approved_at) + Unwrap(Gates.approval_ttl_seconds)

HasApproval(s) ==
    /\ Exists(s)
    /\ Review(s).decision.type = "complete"
    /\ IsSome(Review(s).gate_approved_at)
    /\ NotExpired(s)

\* C9: under approval_scope = Session a gated call on an untripped session is
\* allowed iff the decision is Complete, gate_approved_at is set and the
\* approval has not outlived a configured TTL.
C9_SessionScopeApproval ==
    [][\A s \in SessionIds, tool \in ToolNames :
         (GatedCall(s, tool) /\ Gates.approval_scope = "session") =>
            (out'.verdict = "allow" <=> HasApproval(s))]_vars

\* C9 witness: the call that was denied is allowed after decide COMPLETE, under
\* a configured TTL.
C9_Witness ==
    /\ out.op = "pre-tool-use" /\ out.verdict = "allow" /\ out.reason = "approved"
    /\ Gates.approval_scope = "session"
    /\ IsSome(Gates.approval_ttl_seconds)
    /\ IsSome(Review("S1").gate_trigger)

\* effective_prompt_at as C10 states it: max(last_prompt_at, review_started_at)
\* when last_prompt_at > review_started_at, last_prompt_at otherwise.
EffectivePromptStated(s) ==
    LET lp == Review(s).last_prompt_at
        rs == Review(s).review_started_at
    IN IF IsSome(lp) /\ IsSome(rs) /\ Unwrap(lp) > Unwrap(rs)
       THEN Some(IF Unwrap(lp) >= Unwrap(rs) THEN Unwrap(lp) ELSE Unwrap(rs))
       ELSE lp

\* effective_prompt_at as amended: review_started_at when both are set and
\* last_prompt_at > review_started_at, last_prompt_at otherwise.
EffectivePromptAmended(s) ==
    LET lp == Review(s).last_prompt_at
        rs == Review(s).review_started_at
    IN IF IsSome(lp) /\ IsSome(rs) /\ Unwrap(lp) > Unwrap(rs) THEN rs ELSE lp

AfterPrompt(s, effective) ==
    IF IsSome(effective) THEN Unwrap(Review(s).gate_approved_at) > Unwrap(effective)
    ELSE TRUE

----------------------------------------------------------------------------
(* Atomic replace in the file backend.                                     *)

\* C7 as stated: every get_session that completes returns Ok(None) or one
\* record in full, a previously committed or a newly put one, whatever the
\* interleaving with concurrent put_session calls on the same id.
C7_GetNeverSeesPartialFile ==
    \A r \in Readers :
       procs[r].pc = "done" =>
          \/ procs[r].result.kind = "none"
          \/ /\ procs[r].result.kind = "record"
             /\ procs[r].result.rec \in WrittenRecords

----------------------------------------------------------------------------
(* Approval scopes Prompt and Tool.                                        *)

\* C11 as stated: under approval_scope = Prompt, when the invocation before a
\* gated pre-tool-use was a user-prompt that found the decision Complete and
\* gate_approved_at set (the prompt arrived after decide COMPLETE) and left
\* them so, the call is denied, also when review_started_at is set.
C11_PromptAfterReviewResetsApproval ==
    [][\A s \in SessionIds, tool \in ToolNames :
         (/\ GatedCall(s, tool)
          /\ Gates.approval_scope = "prompt"
          /\ out.op = "user-prompt" /\ out.sid = s
          /\ Exists(s)
          /\ Review(s).decision.type = "complete"
          /\ IsSome(Review(s).gate_approved_at))
         => out'.verdict = "deny"]_vars

\* C12: under approval_scope = Tool every gated call on an untripped session
\* is denied, whatever the decision and gate_approved_at are.
C12_ToolScopeAlwaysDenies ==
    [][\A s \in SessionIds, tool \in ToolNames :
         (GatedCall(s, tool) /\ Gates.approval_scope = "tool") =>
            out'.verdict = "deny"]_vars

\* C12 witness: a gated call was denied on a session whose decision is Complete
\* with gate_approved_at set at this very time.
C12_Witness ==
    /\ out.op = "pre-tool-use" /\ out.verdict = "deny"
    /\ Gates.approval_scope = "tool"
    /\ Review("S1").decision.type = "complete"
    /\ Review("S1").gate_approved_at = Some(now)
    /\ ~Review("S1").circuit_breaker_tripped

----------------------------------------------------------------------------
(* Frame conditions of pre-tool-use.                                       *)

\* The review state a pre-tool-use call starts from: the stored one, or that of
\* the session it creates.
ReviewBefore(s) == IF Exists(s) THEN Review(s) ELSE ReviewStateDefault

TraceBefore(s) == IF Exists(s) THEN Unwrap(store[s]).trace ELSE <<>>

\* The first index, in configured order, of a pattern that matches the key by
\* glob semantics.
FirstMatchingIndex(tool) ==
    CHOOSE i \in 1..Len(Gates.tools) :
       /\ GlobMatches(Gates.tools[i], tool)
       /\ \A j \in 1..(i - 1) : ~GlobMatches(Gates.tools[j], tool)

\* C13: on a tripped session a gated call is allowed under every decision and
\* approval scope; it appends one gate_allowed event and leaves enabled,
\* gate_trigger, review_started_at, decision and block_count as they were.
C13_TrippedGateAllows ==
    [][\A s \in SessionIds, tool \in ToolNames :
         (/\ PreToolUse(s, tool, FALSE, FALSE)
          /\ MatchesGate(tool)
          /\ Exists(s)
          /\ Review(s).circuit_breaker_tripped)
         => /\ out'.verdict = "allow"
            /\ Exists(s)'
            /\ Len(Unwrap(store[s]).trace') = Len(Unwrap(store[s]).trace) + 1
            /\ SubSeq(Unwrap(store[s]).trace', 1, Len(Unwrap(store[s]).trace))
                 = Unwrap(store[s]).trace
            /\ Unwrap(store[s]).trace'[Len(Unwrap(store[s]).trace) + 1].event_type
                 = "gate_allowed"
            /\ Review(s)'.enabled = Review(s).enabled
            /\ Review(s)'.gate_trigger = Review(s).gate_trigger
            /\ Review(s)'.review_started_at = Review(s).review_started_at
            /\ Review(s)'.decision = Review(s).decision
            /\ Review(s)'.block_count = Review(s).block_count]_vars

\* C13 witness: a gated call was allowed on a tripped session whose decision is
\* Issues, under the tool scope.
C13_Witness ==
    /\ out.op = "pre-tool-use" /\ out.verdict = "allow" /\ out.reason = "circuit_breaker"
    /\ Gates.approval_scope = "tool"
    /\ Review("S1").circuit_breaker_tripped
    /\ Review("S1").decision.type = "issues"

\* C14: when pre-tool-use denies, the stored session has enabled = true,
\* review_started_at = triggered_at = the time of the call and pattern_matched
\* = the first configured pattern matching the key; decision, gate_approved_at,
\* block_count and circuit_breaker_tripped are as before the call.
C14_DenyRecordsTrigger ==
    [][\A s \in SessionIds, tool \in ToolNames :
         (PreToolUse(s, tool, FALSE, FALSE) /\ out'.verdict = "deny")
         => /\ Exists(s)'
            /\ Review(s)'.enabled
            /\ Review(s)'.review_started_at = Some(now)
            /\ IsSome(Review(s)'.gate_trigger)
            /\ Unwrap(Review(s)'.gate_trigger).triggered_at = now
            /\ Unwrap(Review(s)'.gate_trigger).pattern_matched
                 = Gates.tools[FirstMatchingIndex(tool)]
            /\ Review(s)'.decision = ReviewBefore(s).decision
            /\ Review(s)'.gate_approved_at = ReviewBefore(s).gate_approved_at
            /\ Review(s)'.block_count = ReviewBefore(s).block_count
            /\ Review(s)'.circuit_breaker_tripped
                 = ReviewBefore(s).circuit_breaker_tripped]_vars

\* C14 witness: a deny on a session that had been approved earlier and blocked
\* once, the key matching both configured patterns.
C14_Witness ==
    /\ out.op = "pre-tool-use" /\ out.verdict = "deny"
    /\ IsSome(Review("S1").gate_approved_at)
    /\ Review("S1").review_started_at = Some(now)
    /\ now > 0
    /\ Unwrap(Review("S1").gate_trigger).pattern_matched = GateTools[1]
    /\ GlobMatches(GateTools[2], Unwrap(Review("S1").gate_trigger).tool_name)

\* C15: with an empty gate list, or a key no pattern matches, pre-tool-use
\* allows and the store is unchanged: no session created, none modified.
C15_UngatedCallLeavesStore ==
    [][\A s \in SessionIds, tool \in ToolNames :
         (/\ PreToolUse(s, tool, FALSE, FALSE)
          /\ \A i \in 1..Len(Gates.tools) : ~GlobMatches(Gates.tools[i], tool))
         => /\ out'.verdict = "allow"
            /\ store' = store]_vars

\* C15 witness: an ungated call was allowed while no session exists, under a
\* non-empty gate list.
C15_Witness ==
    /\ out.op = "pre-tool-use" /\ out.verdict = "allow" /\ out.reason = "no_match"
    /\ Gates.tools /= <<>>
    /\ ~Exists("S1")

----------------------------------------------------------------------------
(* The decide operation.                                                   *)

\* A reliable decide on session s with kind k is the step being taken.
DecideStep(s, k) == Decide(s, k, FALSE, FALSE)

\* The kind in lower case (kinds are ASCII words).
KindLower(k) ==
    CASE k = "COMPLETE" -> "complete"
      [] k = "issues"   -> "issues"
      [] k = "maybe"    -> "maybe"

\* C16: a successful decide appends one entry holding the prior decision to
\* decision_history, replaces decision, sets updated_at = now, sets
\* gate_approved_at = now for COMPLETE and keeps it for ISSUES, and leaves
\* enabled, block_count and circuit_breaker_tripped unchanged.
C16_DecideRecordsDecision ==
    [][\A s \in SessionIds, k \in Kinds :
         (DecideStep(s, k) /\ out'.verdict = "ok")
         => /\ Exists(s) /\ Exists(s)'
            /\ Review(s)'.decision_history
                 = Append(Review(s).decision_history,
                          [decision |-> Review(s).decision, timestamp |-> now])
            /\ Review(s)'.decision.type = KindLower(k)
            /\ Unwrap(store[s]).updated_at' = now
            /\ Review(s)'.gate_approved_at
                 = IF KindLower(k) = "complete" THEN Some(now)
                   ELSE Review(s).gate_approved_at
            /\ Review(s)'.enabled = Review(s).enabled
            /\ Review(s)'.block_count = Review(s).block_count
            /\ Review(s)'.circuit_breaker_tripped
                 = Review(s).circuit_breaker_tripped]_vars

\* C16 witness: a decide ISSUES succeeded after an earlier COMPLETE, and the
\* earlier approval time is still stored.
C16_Witness ==
    /\ out.op = "decide" /\ out.verdict = "ok"
    /\ Review("S1").decision.type = "issues"
    /\ Review("S1").gate_approved_at = Some(0)
    /\ now = 1
    /\ Unwrap(store["S1"]).updated_at = 1
    /\ Len(Review("S1").decision_history) = 2

\* C17: decide fails with SessionNotFound on a missing session and with
\* InvalidDecision on a kind that is neither COMPLETE nor ISSUES in any case;
\* either way the store is unchanged.
C17_DecideRejects ==
    [][\A s \in SessionIds, k \in Kinds :
         DecideStep(s, k)
         => /\ ~Exists(s)
                 => /\ out'.verdict = "error" /\ out'.reason = "session_not_found"
                    /\ store' = store
            /\ (Exists(s) /\ KindLower(k) \notin {"complete", "issues"})
                 => /\ out'.verdict = "error" /\ out'.reason = "invalid_decision"
                    /\ store' = store]_vars

\* C17 witness: an invalid kind was rejected on a session that has a recorded
\* decision and a pending attempt.
C17_Witness ==
    /\ out.op = "decide" /\ out.verdict = "error" /\ out.reason = "invalid_decision"
    /\ Exists("S1")
    /\ Len(Review("S1").decision_history) >= 1
    /\ \E i \in 1..Len(Review("S1").attempts) :
          Review("S1").attempts[i].outcome.type = "pending"

\* Whether attempt i is the last Pending one of the sequence.
IsLastPending(attempts, i) ==
    /\ attempts[i].outcome.type = "pending"
    /\ \A j \in (i + 1)..Len(attempts) : attempts[j].outcome.type /= "pending"

\* C18: a successful decide turns the last Pending attempt (if any) into
\* Success with decision_type = the lower-cased kind and blocks_needed = the
\* current block_count; every other attempt and the length are unchanged.
C18_DecideClosesLastPendingAttempt ==
    [][\A s \in SessionIds, k \in Kinds :
         (DecideStep(s, k) /\ out'.verdict = "ok")
         => /\ Len(Review(s)'.attempts) = Len(Review(s).attempts)
            /\ \A i \in 1..Len(Review(s).attempts) :
                 Review(s)'.attempts[i] =
                    IF IsLastPending(Review(s).attempts, i)
                    THEN [Review(s).attempts[i] EXCEPT !.outcome =
                             [type          |-> "success",
                              decision_type |-> KindLower(k),
                              blocks_needed |-> Review(s).block_count]]
                    ELSE Review(s).attempts[i]]_vars

\* C18 witness: of two Pending attempts the decide closed the second, with the
\* block count of two, and left the first Pending.
C18_Witness ==
    /\ out.op = "decide" /\ out.verdict = "ok"
    /\ Len(Review("S1").attempts) = 2
    /\ Review("S1").attempts[1].outcome.type = "pending"
    /\ Review("S1").attempts[2].outcome.type = "success"
    /\ Review("S1").attempts[2].outcome.blocks_needed = 2

----------------------------------------------------------------------------
(* The trace limit.                                                        *)

MaxEvents == config.trace.max_events

\* C19 as stated: after every operation that adds events to the trace, the
\* stored trace has at most max_events events.
C19_TraceWithinLimit ==
    \A s \in SessionIds :
       Exists(s) => Len(Unwrap(store[s]).trace) <= MaxEvents

\* The event a pre-tool-use call that wrote the session handed to
\* add_trace_event, read off its verdict.
GateEvent(tool, answer) ==
    IF answer.verdict = "deny"
    THEN TraceEvent("gate_blocked",
                    [tool |-> tool, pattern |-> Gates.tools[FirstMatchingIndex(tool)]])
    ELSE TraceEvent("gate_allowed", [tool |-> tool, reason |-> answer.reason])

LastOf(seq, n) == SubSeq(seq, Len(seq) - n + 1, Len(seq))

\* C20: when add_trace_event finds the trace longer than max_events (>= 1),
\* the result has exactly max_events entries: the first keep_start =
\* min(10, max_events / 2) events, one trace_compacted marker, the last
\* max_events - keep_start - 1 events; otherwise the trace is only extended by
\* the new event.
C20_CompactionShape ==
    [][\A s \in SessionIds, tool \in ToolNames :
         (/\ PreToolUse(s, tool, FALSE, FALSE)
          /\ out'.reason \in {"review_required", "approved", "circuit_breaker"})
         => LET pushed     == Append(TraceBefore(s), GateEvent(tool, out'))
                keep_start == IF 10 < MaxEvents \div 2 THEN 10 ELSE MaxEvents \div 2
                keep_end   == MaxEvents - keep_start - 1
                result     == Unwrap(store[s]).trace'
            IN IF Len(pushed) > MaxEvents
               THEN /\ Len(result) = MaxEvents
                    /\ SubSeq(result, 1, keep_start) = SubSeq(pushed, 1, keep_start)
                    /\ result[keep_start + 1].event_type = "trace_compacted"
                    /\ SubSeq(result, keep_start + 2, MaxEvents) = LastOf(pushed, keep_end)
               ELSE result = pushed]_vars

\* C20 witness: a full trace under max_events = 3 was compacted to its first
\* event, the marker and the new event.
C20_Witness ==
    /\ out.op = "pre-tool-use"
    /\ MaxEvents = 3
    /\ Exists("S1")
    /\ Len(Unwrap(store["S1"]).trace) = 3
    /\ Unwrap(store["S1"]).trace[1].event_type = "session_start"
    /\ Unwrap(store["S1"]).trace[2].event_type = "trace_compacted"
    /\ Unwrap(store["S1"]).trace[2].payload.dropped_events >= 1
    /\ Unwrap(store["S1"]).trace[3].event_type \in {"gate_blocked", "gate_allowed"}

----------------------------------------------------------------------------
(* The decision table of subagent-stop.                                    *)

\* The verdict the decision table gives for a reviewer-stop input read at
\* clock t against the stored sessions.
SubagentVerdict(input, t) ==
    LET sid     == extract_session_id(input.subagent_prompt)
        started == IF input.subagent_started_at = None
                   THEN t - FallbackWindowSeconds
                   ELSE Unwrap(input.subagent_started_at)
    IN CASE input.subagent_type /= Some("roz:roz") -> "approve"
         [] OTHER ->
       CASE sid = None -> "block"
         [] OTHER ->
       CASE Lookup(Unwrap(sid)) = None -> "approve"
         [] OTHER ->
       LET state == Unwrap(Lookup(Unwrap(sid)))
       IN CASE state.review.decision = DecisionPending -> "block"
            [] OTHER ->
          CASE state.updated_at < started -> "block"
            [] state.updated_at > t + BufferSeconds -> "block"
            [] OTHER -> "approve"

\* C21: subagent-stop never modifies a session and answers by the table:
\* another subagent_type approves; else no SESSION_ID blocks; else a missing
\* session approves; else Pending blocks; else updated_at < started or
\* updated_at > now + 5 s blocks and anything else, both boundaries
\* included, approves; started is now - 1 hour when not given.
C21_SubagentStopTable ==
    [][\A input \in SubagentInputs, d \in ClockOffsets :
          SubagentStopAt(input, FALSE, now + d) =>
             /\ out'.verdict = SubagentVerdict(input, now + d)
             /\ store' = store]_vars

\* A reviewer's stop was approved with the decision stamped exactly at the
\* start of the window.
C21_Witness ==
    /\ out.op = "subagent-stop" /\ out.reason = "in_window"
    /\ Exists("S1")
    /\ out.input.started = Unwrap(store["S1"]).updated_at

----------------------------------------------------------------------------
(* user-prompt.                                                            *)

\* The record user-prompt works on: the stored one, or a fresh one.
PromptBefore(s) == IF Exists(s) THEN Unwrap(store[s]) ELSE SessionStateNew(s, now)

\* The prompt opts in: #roz follows its leading whitespace.
OptsIn(prompt) ==
    \E i \in 1..(Len(prompt) + 1) :
       /\ \A j \in 1..(i - 1) : prompt[j] = " "
       /\ Len(prompt) >= i + 3
       /\ SubSeq(prompt, i, i + 3) = RozMarker

\* C22: user-prompt always approves and sets last_prompt_at to now; exactly
\* when the prompt opts in it enables review, appends the raw prompt, resets
\* the decision to Pending and appends a prompt_received event; otherwise
\* enabled, decision, user_prompts, trace, block_count and
\* circuit_breaker_tripped stay as they were.
C22_UserPromptEffect ==
    [][\A s \in SessionIds, p \in Prompts :
          UserPrompt(s, p, FALSE, FALSE) =>
             LET before == PromptBefore(s)
                 after  == Unwrap(store'[s])
             IN /\ out'.verdict = "approve"
                /\ IsSome(store'[s])
                /\ after.review.last_prompt_at = Some(now)
                /\ IF OptsIn(p)
                   THEN /\ after.review.enabled
                        /\ after.review.user_prompts = Append(before.review.user_prompts, p)
                        /\ after.review.decision = DecisionPending
                        /\ after.trace =
                             Append(before.trace, TraceEvent("prompt_received", p))
                   ELSE /\ after.review.enabled = before.review.enabled
                        /\ after.review.decision = before.review.decision
                        /\ after.review.user_prompts = before.review.user_prompts
                        /\ after.trace = before.trace
                        /\ after.review.block_count = before.review.block_count
                        /\ after.review.circuit_breaker_tripped =
                             before.review.circuit_breaker_tripped]_vars

\* An opting-in prompt with leading whitespace reopened a review that already
\* had a recorded decision.
C22_Witness ==
    /\ out.op = "user-prompt" /\ Exists("S1")
    /\ Review("S1").enabled
    /\ Review("S1").decision = DecisionPending
    /\ Review("S1").decision_history /= <<>>
    /\ Review("S1").last_prompt_at = Some(now)
    /\ Review("S1").user_prompts[Len(Review("S1").user_prompts)] = <<" ", "#", "r", "o", "z">>

----------------------------------------------------------------------------
(* session-start.                                                          *)

\* C23: session-start on an id that does not exist creates the record with
\* exactly one session_start event and review disabled; on an existing
\* session it leaves the stored record as it was, so repeating it gives the
\* state of running it once.
C23_SessionStartIdempotent ==
    [][\A s \in SessionIds :
          SessionStart(s, FALSE, FALSE) =>
             /\ out'.verdict = "approve"
             /\ IF Exists(s)
                THEN store' = store
                ELSE /\ IsSome(store'[s])
                     /\ Len(Unwrap(store'[s]).trace) = 1
                     /\ Unwrap(store'[s]).trace[1].event_type = "session_start"
                     /\ Unwrap(store'[s]).review = ReviewStateDefault
                     /\ ~Unwrap(store'[s]).review.enabled
                     /\ \A o \in SessionIds \ {s} : store'[o] = store[o]]_vars

\* session-start has just run on a session that other hooks had already
\* written to.
C23_Witness ==
    /\ out.op = "session-start" /\ Exists("S1")
    /\ Len(Unwrap(store["S1"]).trace) >= 2
    /\ Review("S1").enabled

----------------------------------------------------------------------------
(* The stop hook behind the dispatcher.                                    *)

\* C24 as stated: `hook stop` trips the breaker at the configured
\* max_blocks: on an enabled session whose decision is not Complete and
\* whose block_count, with this stop counted, reaches the configured
\* max_blocks, the stop approves and stores circuit_breaker_tripped = true.
C24_DispatchedStopTripsAtConfigured ==
    [][\A s \in SessionIds :
         (/\ DispatchStop(s, FALSE, FALSE)
          /\ Exists(s)
          /\ Review(s).enabled
          /\ ~Review(s).circuit_breaker_tripped
          /\ Review(s).decision.type /= "complete"
          /\ Review(s).block_count + 1 >= MaxBlocks)
         => /\ out'.verdict = "approve"
            /\ Review(s)'.circuit_breaker_tripped]_vars

----------------------------------------------------------------------------
(* max_blocks = 0.                                                         *)

\* C25: with max_blocks = 0 a stop on an enabled session, whatever its
\* decision, approves by tripping in the check made before the increment:
\* block_count stays 0, circuit_breaker_tripped becomes true, enabled
\* becomes false and no attempt is recorded.
C25_ZeroMaxBlocksTripsFirst ==
    [][\A s \in SessionIds :
         (StopStep(s) /\ MaxBlocks = 0 /\ Exists(s) /\ Review(s).enabled) =>
            /\ out'.verdict = "approve"
            /\ Review(s).block_count = 0
            /\ Review(s)'.block_count = 0
            /\ Review(s)'.circuit_breaker_tripped
            /\ ~Review(s)'.enabled
            /\ Review(s)'.attempts = Review(s).attempts
            /\ Review(s)'.attempts = <<>>]_vars

\* The first stop on an enabled session with a recorded Issues decision
\* tripped the breaker under max_blocks = 0.
C25_Witness ==
    /\ MaxBlocks = 0
    /\ out.op = "stop" /\ out.verdict = "approve" /\ out.reason = "circuit_breaker"
    /\ obs["S1"].enabledStops = 1
    /\ Review("S1").decision.type = "issues"
    /\ Review("S1").circuit_breaker_tripped
    /\ ~Review("S1").enabled
    /\ Review("S1").block_count = 0

----------------------------------------------------------------------------
(* max_events = 0.                                                         *)

\* C26 as stated: with max_events = 0 an append through add_trace_event (a
\* gated pre-tool-use call) completes without panic or underflow and leaves
\* the trace empty or holding only the trace_compacted marker.
C26_ZeroMaxEventsCompacts ==
    [][\A s \in SessionIds, tool \in ToolNames, b \in BOOLEAN :
         (/\ PreToolUseBuild(s, tool, b)
          /\ MaxEvents = 0
          /\ MatchesGate(tool))
         => /\ out'.verdict /= "panic"
            /\ Exists(s)'
            /\ \/ Unwrap(store[s]).trace' = <<>>
               \/ /\ Len(Unwrap(store[s]).trace') = 1
                  /\ Unwrap(store[s]).trace'[1].event_type = "trace_compacted"]_vars

----------------------------------------------------------------------------
(* The storage contract.                                                   *)

\* How many of the summaries are for this session id.
CountFor(summaries, id) ==
    Cardinality({i \in 1..Len(summaries) : summaries[i].session_id = id})

\* The backend holds exactly one record for the id, whatever the order in
\* which it enumerates.
ExactlyOneRecord(backend, id) ==
    \A order \in EnumerationOrders(backend) :
       CountFor(list_sessions(backend, CleanListLimit, order), id) = 1

\* C27: on both backends a get_session that follows a put_session of a
\* record, with no other write to the id in between, returns a record equal
\* to the one put; and a put_session replaces what the id held, leaving
\* exactly one record for it.  (out'.op names the call the step made and
\* obs the record of the last put_session.)
C27_PutGetRoundTrip ==
    [][/\ out'.op = "get" =>
            LET id == out'.sid IN
            /\ IsSome(obs[id].memory) =>
                  out'.memory = [err |-> FALSE, val |-> obs[id].memory]
            /\ IsSome(obs[id].file) =>
                  out'.file = [err |-> FALSE, val |-> obs[id].file]
       /\ out'.op = "put" =>
            LET id    == out'.sid
                state == obs'[id].file
            IN /\ state \in {Some(st) : st \in PutStates}
               /\ get_session([kind |-> "memory", data |-> store'], id)
                     = [err |-> FALSE, val |-> state]
               /\ get_session([kind |-> "file", data |-> sessionsDir'], id)
                     = [err |-> FALSE, val |-> state]
               /\ ExactlyOneRecord([kind |-> "memory", data |-> store'], id)
               /\ ExactlyOneRecord([kind |-> "file", data |-> sessionsDir'], id)
               /\ \A other \in StoreIds \ {id} :
                     /\ store'[other] = store[other]
                     /\ sessionsDir'[session_path(other)]
                           = sessionsDir[session_path(other)]]_vars

\* get_session returned, from both backends, the resolved record that was put
\* last, while a crashed writer's <id>.tmp lies beside the session file.
C27_Witness ==
    /\ out.op = "get" /\ out.sid = "a"
    /\ obs["a"].file = Some(ResolvedAt("a", 0))
    /\ out.file = [err |-> FALSE, val |-> Some(ResolvedAt("a", 0))]
    /\ out.memory = out.file
    /\ IsSome(sessionsDir[<<"a", "tmp">>])

\* The sessions a backend holds: the ids get_session finds a record for.
StoredIds(backend) ==
    {id \in StoreIds : LET got == get_session(backend, id) IN ~got.err /\ IsSome(got.val)}

\* What list_sessions(limit) owes for a backend: at most limit summaries,
\* newest first, each the summary of a different stored session, as many as
\* the limit and the number of stored sessions allow, and none older than a
\* stored session that was left out.
ListContract(backend, limit, summaries) ==
    /\ Len(summaries) = Min2(limit, Cardinality(StoredIds(backend)))
    /\ \A i, j \in 1..Len(summaries) :
          i < j => /\ summaries[i].created_at >= summaries[j].created_at
                   /\ summaries[i].session_id /= summaries[j].session_id
    /\ \A i \in 1..Len(summaries) :
          /\ summaries[i].session_id \in StoredIds(backend)
          /\ summaries[i] =
                SessionSummary(Unwrap(get_session(backend, summaries[i].session_id).val))
    /\ \A id \in StoredIds(backend) :
          (\A i \in 1..Len(summaries) : summaries[i].session_id /= id) =>
             \A i \in 1..Len(summaries) :
                summaries[i].created_at
                   >= Unwrap(get_session(backend, id).val).created_at

\* C28: list_sessions(limit) returns at most limit summaries ordered by
\* created_at descending, one per stored session, and on the file backend
\* none for a file whose extension is not json, whatever was put before and
\* whatever .tmp file a crashed writer left.
C28_ListSessions ==
    [][out'.op = "list" =>
          /\ ListContract(MemoryStore, out'.arg, out'.memory.val)
          /\ ListContract(FileStore, out'.arg, out'.file.val)]_vars

\* list_sessions(1) returned the newer of two stored sessions while the
\* directory also held a .tmp file.
C28_Witness ==
    /\ out.op = "list" /\ out.arg = 1
    /\ StoredIds(FileStore) = StoreIds
    /\ StoredIds(MemoryStore) = StoreIds
    /\ \E n \in FileNames : n[2] = "tmp" /\ IsSome(sessionsDir[n])
    /\ Len(out.file.val) = 1 /\ Len(out.memory.val) = 1
    /\ out.file.val[1].session_id = "b"
    /\ out.file.val[1].created_at = MaxTime
    /\ Unwrap(store["a"]).created_at < MaxTime

\* The session file of the id is there and does not hold a session.
IsCorrupt(id) ==
    /\ IsSome(sessionsDir[session_path(id)])
    /\ Unwrap(sessionsDir[session_path(id)]) \in CorruptTexts

\* The session file of the id holds a session.
IsValid(id) ==
    /\ IsSome(sessionsDir[session_path(id)])
    /\ \E state \in PutStates :
          Unwrap(sessionsDir[session_path(id)]) = SerializeSession(state)

\* C29: on the file backend list_sessions passes over a session file that is
\* empty, truncated, not JSON, not text or of another schema and still
\* returns every valid session, while get_session on that id returns an
\* error and not 'not found'.
C29_CorruptFileSkippedByListNotByGet ==
    [][/\ out'.op = "list" =>
            /\ \A id \in StoreIds :
                  IsCorrupt(id) =>
                     \A i \in 1..Len(out'.file.val) : out'.file.val[i].session_id /= id
            /\ ~out'.file.err
            /\ out'.arg >= Cardinality(StoreIds) =>
                  \A id \in StoreIds :
                     IsValid(id) =>
                        \E i \in 1..Len(out'.file.val) : out'.file.val[i].session_id = id
       /\ (out'.op = "get" /\ IsCorrupt(out'.sid)) =>
            /\ out'.file.err
            /\ out'.file /= [err |-> FALSE, val |-> None]]_vars

\* list_sessions returned the one valid session while the other session file
\* was corrupt.
C29_Witness ==
    /\ out.op = "list" /\ out.arg = MaxLimit
    /\ IsCorrupt("a") /\ IsValid("b")
    /\ Len(out.file.val) = 1
    /\ out.file.val[1].session_id = "b"

----------------------------------------------------------------------------
(* Cleanup.                                                                *)

\* The record a backend holds for a stored id.
StoredRecord(backend, id) == Unwrap(get_session(backend, id).val)

\* What one run of clean with the cutoff may have done to a backend: a
\* session that is gone was older than the cutoff and either resolved or not
\* enabled, and a session that is enabled with a Pending decision is still
\* there as it was.
CleanContract(before, after, cutoff) ==
    \A id \in StoredIds(before) :
       LET session == StoredRecord(before, id) IN
       /\ id \notin StoredIds(after) =>
             /\ session.created_at < cutoff
             /\ \/ session.review.decision \in {DecisionComplete, DecisionIssues}
                \/ ~session.review.enabled
       /\ (session.review.enabled /\ session.review.decision = DecisionPending) =>
             /\ id \in StoredIds(after)
             /\ StoredRecord(after, id) = session

----------------------------------------------------------------------------
(* Template selection on its own: select_template over every small weights *)
(* map, iteration order of the HashMap and time-derived draw.              *)

MaxWeight == 2
MaxNanos == 2

TemplateKeys == {"v1", "v2"}

\* HashMap<String, u32> values with keys among TemplateKeys, the empty map included.
WeightMaps ==
    UNION { [K -> 0..MaxWeight] : K \in SUBSET TemplateKeys }

TemplateConfigs ==
    { [active |-> a, weights |-> w] : a \in {"random", "v1"}, w \in WeightMaps }

InitTemplate ==
    /\ store = [s \in SessionIds |-> None]
    /\ now = 0
    /\ config \in { [ConfigDefault EXCEPT !.templates = tc] : tc \in TemplateConfigs }
    /\ out = [op |-> "init", order |-> <<>>, nanos |-> 0, template_id |-> "none"]
    /\ obs = ObsInit
    /\ FsInit

\* One call of select_template(&config.templates), as the stop hook makes it.
SelectTemplate(order, nanos) ==
    /\ out' = [op |-> "select_template", order |-> order, nanos |-> nanos,
               template_id |-> select_template(config.templates, order, nanos)]
    /\ UNCHANGED <<store, now, config, obs, fsVars>>

NextTemplate ==
    \E order \in Orders(config.templates.weights), nanos \in 0..MaxNanos :
        SelectTemplate(order, nanos)

SpecTemplate == InitTemplate /\ [][NextTemplate]_vars

\* C31: with templates.active = "random", selection returns "default" whenever
\* the weights map is empty or its weights sum to zero, whatever keys it holds.
C31_ZeroWeightsSelectDefault ==
    (/\ out.op = "select_template"
     /\ config.templates.active = "random"
     /\ SumWeights(config.templates.weights, out.order) = 0)
        => out.template_id = "default"

----------------------------------------------------------------------------
(* pre-tool-use on Bash commands: the key format_tool_key builds and the   *)
(* verdict, with the gate pattern "Bash:gh*".                              *)

MaxBashTrace == 3

BashGateTools == << <<"B", "a", "s", "h", ":", "g", "h", "*">> >>

BashCommands ==
    {
      \* a gated command
      <<"g", "h", " ", "x">>,
      \* logical or after a gated command
      <<"g", "h", " ", "x", " ", "|", "|", " ", "t", "r", "u", "e">>,
      \* a pipe into a gated command
      <<"y", " ", "|", " ", "g", "h", " ", "x">>,
      \* a pipe inside single quotes, then a pipe
      <<"e", " ", "'", "a", "|", "b", "'", " ", "|", " ", "g", "h", " ", "x">>,
      \* a pipe, then a pipe inside double quotes
      <<"y", " ", "|", " ", "g", "h", " ", "\"", "a", "|", "b", "\"">>,
      \* an assignment in front of the last stage
      <<"y", " ", "|", " ", "A", "=", "1", " ", "g", "h", " ", "x">>,
      \* env in front of the last stage
      <<"y", " ", "|", " ", "e", "n", "v", " ", "A", "=", "1", " ", "g", "h", " ", "x">>,
      \* a nested shell as the last stage
      <<"y", " ", "|", " ", "s", "h", " ", "-", "c", " ", "'", "g", "h", " ", "x", "'">>,
      \* a last stage of more than 80 characters
      <<"y", " ", "|", " ", "g", "h", " ", "x", "x", "x", "x", "x", "x", "x", "x", "x", "x", "x", "x", "x", "x", "x", "x", "x", "x", "x", "x", "x", "x", "x", "x", "x", "x", "x", "x", "x", "x", "x", "x", "x", "x", "x", "x", "x", "x", "x", "x", "x", "x", "x", "x", "x", "x", "x", "x", "x", "x", "x", "x", "x", "x", "x", "x", "x", "x", "x", "x", "x", "x", "x", "x", "x", "x", "x", "x", "x", "x", "x", "x", "x", "x", "x", "x", "x", "x", "x", "x">>,
      \* a backslash before the closing single quote
      <<"e", " ", "'", "a", "\\", "'", " ", "|", " ", "g", "h", " ", "x">>,
      \* a gated command piped into an ungated one
      <<"g", "h", " ", "x", " ", "|", " ", "c", "a", "t">>,
      \* surrounding white space
      <<"\t", "g", "h", " ", "x", "\n">>,
      \* an ungated command
      <<"l", "s">> }

InitBash ==
    /\ store = [s \in SessionIds |-> None]
    /\ now = 0
    /\ config = ConfigOf(DefaultMaxBlocks, "prompt", None, BashGateTools, DefaultMaxEvents)
    /\ out = [op |-> "init", sid |-> "none", command |-> <<>>, verdict |-> "none",
              reason |-> "none", tool_key |-> <<>>, fresh |-> FALSE]
    /\ obs = ObsInit
    /\ FsInit

\* pre-tool-use with tool_name "Bash" and tool_input {"command": cmd}.
PreToolUseBash(s, cmd) ==
    /\ IsSome(store[s]) => Len(Unwrap(store[s]).trace) < MaxBashTrace
    /\ LET input == [session_id |-> s, tool_name |-> Some(BashName),
                     tool_input |-> Some([command |-> cmd])]
           ans   == handle_pre_tool_use(input, config, FALSE, FALSE, now)
       IN /\ Commit(s, ans, FALSE)
          /\ out' = [op |-> "pre-tool-use", sid |-> s, command |-> cmd,
                     verdict  |-> ans.verdict, reason |-> ans.reason,
                     tool_key |-> format_tool_key(input.tool_name, input.tool_input),
                     fresh    |-> ~IsSome(store[s])]
    /\ UNCHANGED <<now, config, obs, fsVars>>

NextBash ==
    \E s \in SessionIds, cmd \in BashCommands : PreToolUseBash(s, cmd)

SpecBash == InitBash /\ [][NextBash]_vars

\* Positions up to i of the quote characters not preceded by a backslash.
QuoteChars(cmd, i) ==
    { j \in 1..i : cmd[j] \in {"'", "\""} /\ ~(j > 1 /\ cmd[j - 1] = "\\") }

\* Reading the quote characters at positions in order from quote state q: a
\* quote opens when none is open and closes the quote of its own kind.
RECURSIVE ReadQuotes(_, _, _)
ReadQuotes(cmd, positions, q) ==
    IF positions = {} THEN q
    ELSE LET j == CHOOSE p \in positions : \A r \in positions : p <= r
         IN ReadQuotes(cmd, positions \ {j},
                CASE cmd[j] = "'"  /\ q = "none"   -> "single"
                  [] cmd[j] = "'"  /\ q = "single" -> "none"
                  [] cmd[j] = "\"" /\ q = "none"   -> "double"
                  [] cmd[j] = "\"" /\ q = "double" -> "none"
                  [] OTHER -> q)

\* The quote state after the first i characters of cmd.
QuoteState(cmd, i) == ReadQuotes(cmd, QuoteChars(cmd, i), "none")

\* Positions of the '|' characters of cmd outside quotes.
UnquotedPipes(cmd) ==
    { i \in 1..Len(cmd) : cmd[i] = "|" /\ QuoteState(cmd, i - 1) = "none" }

\* Every unquoted '|' of cmd stands next to another one.
OnlyOrPairs(cmd) ==
    /\ UnquotedPipes(cmd) /= {}
    /\ \A i \in UnquotedPipes(cmd) :
           (i - 1) \in UnquotedPipes(cmd) \/ (i + 1) \in UnquotedPipes(cmd)

\* C32: for a command whose only unquoted '|' characters occur in '||' pairs
\* no pipe position is recorded and the command is not split: the key is
\* built from the start of the command.
C32_LogicalOrIsNotAPipe ==
    (out.op = "pre-tool-use" /\ OnlyOrPairs(trim(out.command)))
        => /\ find_last_unquoted_pipe(trim(out.command)) = None
           /\ out.tool_key = BashName \o <<":">> \o AfterPipeSteps(trim(out.command))

\* Positions of the unquoted '|' characters of cmd that do not directly
\* follow a '|'.
SplitPoints(cmd) ==
    { i \in UnquotedPipes(cmd) : ~(i > 1 /\ cmd[i - 1] = "|") }

LastOfSet(S) == CHOOSE i \in S : \A k \in S : k <= i

\* The trimmed text after the last split point of the trimmed command.
SinkText(command) ==
    trim(Drop(trim(command), LastOfSet(SplitPoints(trim(command)))))

BashKey(text) == BashName \o <<":">> \o text

\* C33 (amended): for a Bash command with a split point, the tool key is
\* "Bash:" followed by the trimmed text after the last split point, with an
\* env prefix, a nested shell and leading assignments removed from it, cut to
\* 80 characters; a '|' inside quotes is never a split point; and on a fresh
\* session a key matching a gate pattern is denied.
C33_SinkKey ==
    (out.op = "pre-tool-use" /\ SplitPoints(trim(out.command)) /= {})
        => /\ out.tool_key = BashKey(AfterPipeSteps(SinkText(out.command)))
           /\ Len(out.tool_key) <= 5 + MaxKeyChars
           /\ (out.fresh /\ GlobMatches(BashGateTools[1], out.tool_key))
                 => out.verdict = "deny"

\* A fresh session is denied a command whose last stage, after a pipe inside
\* single quotes and a pipe outside them, is gated.
C33_Witness ==
    /\ out.op = "pre-tool-use"
    /\ out.fresh
    /\ SplitPoints(trim(out.command)) /= {}
    /\ \E i \in 1..Len(out.command) :
          out.command[i] = "|" /\ QuoteState(out.command, i - 1) = "single"
    /\ out.verdict = "deny"
    /\ out.tool_key = BashKey(<<"g", "h", " ", "x">>)

\* C33 as stated: the tool key is "Bash:" followed by the trimmed text after
\* the last unquoted pipe, cut to 80 characters.
C33_SinkKeyAsStated ==
    (out.op = "pre-tool-use" /\ SplitPoints(trim(out.command)) /= {})
        => out.tool_key = BashKey(Take(SinkText(out.command), MaxKeyChars))

----------------------------------------------------------------------------
(* Attempts and block verdicts of the stop hook                            *)

Attempts(st, s) == Unwrap(st[s]).review.attempts

\* C34: a stop that returns block adds one to block_count and appends one
\* attempt with outcome Pending; a stop that returns approve appends no
\* attempt; so the attempts of a session are as many as the block verdicts
\* returned for it.
C34_StopStep ==
    \A s \in SessionIds :
        (out'.op = "stop" /\ out'.sid = s /\ now' = now) =>
            /\ out'.verdict = "block" =>
                  /\ IsSome(store[s]) /\ IsSome(store'[s])
                  /\ Unwrap(store'[s]).review.block_count
                         = Unwrap(store[s]).review.block_count + 1
                  /\ Len(Attempts(store', s)) = Len(Attempts(store, s)) + 1
                  /\ SubSeq(Attempts(store', s), 1, Len(Attempts(store, s)))
                         = Attempts(store, s)
                  /\ Attempts(store', s)[Len(Attempts(store', s))].outcome.type = "pending"
            /\ out'.verdict = "approve" =>
                  /\ IsSome(store'[s]) = IsSome(store[s])
                  /\ IsSome(store[s]) => Attempts(store', s) = Attempts(store, s)

C34_AttemptsAreBlocks ==
    \A s \in SessionIds :
        IF IsSome(store[s]) THEN Len(Attempts(store, s)) = obs[s].blocks
        ELSE obs[s].blocks = 0

C34_AttemptPerBlock == [][C34_StopStep]_vars /\ []C34_AttemptsAreBlocks

\* A stop has blocked and recorded its attempt, and a later stop approves
\* without recording one.
C34_Witness ==
    \E s \in SessionIds :
        /\ out.op = "stop" /\ out.sid = s /\ out.verdict = "approve"
        /\ IsSome(store[s])
        /\ obs[s].blocks = 1
        /\ Len(Attempts(store, s)) = 1

\* ------------------------------------------------------------------
\* MemoryBackend under threads: src/storage/memory.rs
\* sessions: RwLock<HashMap<String, SessionState>>
\* ------------------------------------------------------------------

Threads == {"t1", "t2"}

\* The calls the threads make in all before the run ends.
MaxCalls == 3

MemStates == UNION { {StartedAt(id, 0), ActiveAt(id, 0)} : id \in StoreIds }

\* The calls: put_session(state), get_session(id), delete_session(id),
\* list_sessions(limit).
MemCalls ==
    {[op |-> "put", sid |-> st.session_id, state |-> Some(st), limit |-> 0] :
        st \in MemStates}
    \cup {[op |-> o, sid |-> id, state |-> None, limit |-> 0] :
            o \in {"get", "delete"}, id \in StoreIds}
    \cup {[op |-> "list", sid |-> "none", state |-> None, limit |-> MaxLimit]}

NoCall == [op |-> "none", sid |-> "none", state |-> None, limit |-> 0]

NoRet == [err |-> FALSE, val |-> None, list |-> <<>>]

ThreadIdle == [pc |-> "idle", call |-> NoCall, ret |-> NoRet, raced |-> FALSE]

\* A value of the map while HashMap::insert is moving the record into its
\* slot: what a reader that did not wait for the writer could copy.
PartlyWritten(state) == [state EXCEPT !.created_at = 0 - 1, !.trace = <<>>]

HoldsRead(thread) ==
    thread.call.op \in {"get", "list"} /\ thread.pc \in {"held", "done"}

HoldsWrite(thread) ==
    thread.call.op \in {"put", "delete"} /\ thread.pc \in {"held", "insert", "done"}

RwLock_read_NoExclusion(threads, t) == TRUE

\* RwLock::read returns once no thread holds the write guard.
RwLock_read(threads, t) == \A u \in DOMAIN threads : ~HoldsWrite(threads[u])

\* RwLock::write returns once no thread holds a guard.
RwLock_write(threads, t) ==
    \A u \in DOMAIN threads : ~HoldsWrite(threads[u]) /\ ~HoldsRead(threads[u])

MemObsInit ==
    [calls |-> 0,
     put |-> [id \in StoreIds |-> {}],
     done |-> [id \in StoreIds |-> {}],
     deleted |-> [id \in StoreIds |-> FALSE]]

InitMemory ==
    /\ store = [id \in StoreIds |-> None]
    /\ procs = [t \in Threads |-> ThreadIdle]
    /\ obs = MemObsInit
    /\ now = 0
    /\ config = ConfigDefault
    /\ out = [op |-> "init", thread |-> "none", sid |-> "none", raced |-> FALSE,
              ret |-> NoRet]
    /\ fsDir = <<>> /\ fsInodes = <<>> /\ sessionsDir = EmptyDir

\* A thread enters one of the four methods and reaches the lock.
MemCall(t, call) ==
    /\ procs[t].pc = "idle"
    /\ obs.calls < MaxCalls
    /\ LET busy == \E u \in Threads : procs[u].pc /= "idle"
       IN procs' = [u \in Threads |->
                      IF u = t
                      THEN [pc |-> "lock", call |-> call, ret |-> NoRet, raced |-> busy]
                      ELSE IF procs[u].pc /= "idle"
                           THEN [procs[u] EXCEPT !.raced = TRUE]
                           ELSE procs[u]]
    /\ obs' = [obs EXCEPT
                 !.calls = @ + 1,
                 !.put = IF call.op = "put"
                         THEN [@ EXCEPT ![call.sid] = @ \cup {Unwrap(call.state)}]
                         ELSE @,
                 !.deleted = IF call.op = "delete"
                             THEN [@ EXCEPT ![call.sid] = TRUE]
                             ELSE @]
    /\ UNCHANGED <<store, now, config, out, fsDir, fsInodes, sessionsDir>>

\* self.sessions.read().unwrap() / self.sessions.write().unwrap()
MemLock(t) ==
    /\ procs[t].pc = "lock"
    /\ IF procs[t].call.op \in {"get", "list"}
       THEN RwLock_read(procs, t)
       ELSE RwLock_write(procs, t)
    /\ procs' = [procs EXCEPT ![t].pc = "held"]
    /\ UNCHANGED <<store, now, config, out, obs, fsDir, fsInodes, sessionsDir>>

\* get_session: sessions.get(session_id).cloned()
MemGet(t) ==
    /\ procs[t].pc = "held" /\ procs[t].call.op = "get"
    /\ LET r == MemoryBackend_get_session(store, procs[t].call.sid)
       IN procs' = [procs EXCEPT ![t].pc = "done",
                                 ![t].ret = [err |-> r.err, val |-> r.val,
                                             list |-> <<>>]]
    /\ UNCHANGED <<store, now, config, out, obs, fsDir, fsInodes, sessionsDir>>

\* list_sessions: values().map(..).collect(), sort_by, truncate
MemList(t) ==
    /\ procs[t].pc = "held" /\ procs[t].call.op = "list"
    /\ \E ids \in MapEntries(store) :
          procs' = [procs EXCEPT
                      ![t].pc = "done",
                      ![t].ret = [err |-> FALSE, val |-> None,
                                  list |-> MemoryBackend_list_sessions(
                                               store, procs[t].call.limit, ids)]]
    /\ UNCHANGED <<store, now, config, out, obs, fsDir, fsInodes, sessionsDir>>

\* put_session: sessions.insert(..) starts moving the clone into the map.
MemInsert(t) ==
    /\ procs[t].pc = "held" /\ procs[t].call.op = "put"
    /\ store' = MemoryBackend_put_session(store, PartlyWritten(Unwrap(procs[t].call.state)))
    /\ procs' = [procs EXCEPT ![t].pc = "insert"]
    /\ UNCHANGED <<now, config, out, obs, fsDir, fsInodes, sessionsDir>>

\* put_session: sessions.insert(..) completes.
MemInserted(t) ==
    /\ procs[t].pc = "insert"
    /\ store' = MemoryBackend_put_session(store, Unwrap(procs[t].call.state))
    /\ procs' = [procs EXCEPT ![t].pc = "done"]
    /\ UNCHANGED <<now, config, out, obs, fsDir, fsInodes, sessionsDir>>

\* delete_session: sessions.remove(session_id)
MemRemove(t) ==
    /\ procs[t].pc = "held" /\ procs[t].call.op = "delete"
    /\ store' = MemoryBackend_delete_session(store, procs[t].call.sid)
    /\ procs' = [procs EXCEPT ![t].pc = "done"]
    /\ UNCHANGED <<now, config, out, obs, fsDir, fsInodes, sessionsDir>>

\* The guard is dropped and the method returns.
MemReturn(t) ==
    /\ procs[t].pc = "done"
    /\ out' = [op |-> procs[t].call.op, thread |-> t, sid |-> procs[t].call.sid,
               raced |-> procs[t].raced, ret |-> procs[t].ret]
    /\ obs' = [obs EXCEPT
                 !.done = IF procs[t].call.op = "put"
                          THEN [@ EXCEPT ![procs[t].call.sid] =
                                             @ \cup {Unwrap(procs[t].call.state)}]
                          ELSE @]
    /\ procs' = [procs EXCEPT ![t] = ThreadIdle]
    /\ UNCHANGED <<store, now, config, fsDir, fsInodes, sessionsDir>>

NextMemory ==
    \/ \E t \in Threads, call \in MemCalls : MemCall(t, call)
    \/ \E t \in Threads : MemLock(t)
    \/ \E t \in Threads : MemGet(t)
    \/ \E t \in Threads : MemList(t)
    \/ \E t \in Threads : MemInsert(t)
    \/ \E t \in Threads : MemInserted(t)
    \/ \E t \in Threads : MemRemove(t)
    \/ \E t \in Threads : MemReturn(t)

SpecMemory == InitMemory /\ [][NextMemory]_vars

\* The thread whose write guard covers a change of the map's entry for id.
WritesTo(id) ==
    {t \in Threads : HoldsWrite(procs[t]) /\ procs[t].call.sid = id}

\* A put that has returned stays in the map while nobody deletes its id.
PutsRetained ==
    \A id \in StoreIds :
        (obs.done[id] /= {} /\ ~obs.deleted[id]) =>
            /\ IsSome(store[id])
            /\ (WritesTo(id) = {} => Unwrap(store[id]) \in obs.put[id])

\* What get_session and list_sessions return is made of whole records that
\* were put under that id.
ReadsWhole ==
    /\ (out.op = "get" /\ IsSome(out.ret.val)) =>
            Unwrap(out.ret.val) \in obs.put[out.sid]
    /\ out.op = "list" =>
            \A i \in 1..Len(out.ret.list) :
                \E id \in StoreIds : \E st \in obs.put[id] :
                    out.ret.list[i] = SessionSummary(st)

\* Every change of an entry is made by a put or delete of that id, and a
\* delete leaves the entry absent.
WritesTargeted ==
    \A id \in StoreIds :
        store'[id] /= store[id] =>
            \E t \in WritesTo(id) :
                /\ procs[t].pc /= procs'[t].pc
                /\ procs[t].call.op = "delete" => store'[id] = None

\* C35: concurrent put_session calls with distinct ids are all retained,
\* a delete_session changes only the entry of its own id, and what
\* get_session or list_sessions returns while a put is in progress is, for
\* each id, a whole record that was put (the prior or the new one).
C35_MemoryBackendThreadSafe ==
    [][WritesTargeted]_vars /\ [](PutsRetained /\ ReadsWhole)

\* A get_session that overlapped another thread's call returned a record
\* whose put has returned, while both ids are present in the map.
C35_Witness ==
    /\ out.op = "get" /\ out.raced
    /\ IsSome(out.ret.val)
    /\ obs.done[out.sid] /= {}
    /\ \A id \in StoreIds : IsSome(store[id])

\* ------------------------------------------------------------------
\* Gate denials between decisions
\* ------------------------------------------------------------------

\* The session's trace holds a gate_blocked event with no COMPLETE decision
\* recorded after it.
DenyOpen(state) ==
    \E i \in 1..Len(state.trace) :
        /\ state.trace[i].event_type = "gate_blocked"
        /\ \A j \in (i + 1)..Len(state.trace) :
              ~(/\ state.trace[j].event_type = "roz_decision"
                /\ state.trace[j].payload = "COMPLETE")

\* A pre-tool-use on a gated tool that finds the session stored.
GatedCallOn(s) ==
    /\ out'.op = "pre-tool-use" /\ out'.sid = s /\ now' = now
    /\ out'.reason \notin {"no_match", "gates_disabled"}
    /\ IsSome(store[s])

C36_DenyStep ==
    \A s \in SessionIds :
        (/\ GatedCallOn(s)
         /\ DenyOpen(Unwrap(store[s]))
         /\ ~Unwrap(store[s]).review.circuit_breaker_tripped)
        => out'.verdict = "deny"

\* C36: once pre-tool-use has denied a gated call on a session, every later
\* gated pre-tool-use on it is denied as long as no decide COMPLETE has been
\* recorded since and the breaker has not tripped, whatever prompts, stops
\* and ISSUES decisions came in between.
C36_DenyIsSticky == [][C36_DenyStep]_vars

\* A gated call is denied again after an earlier denial and some other
\* invocation in between.
C36_Witness ==
    /\ out.op = "pre-tool-use" /\ out.verdict = "deny"
    /\ IsSome(store[out.sid])
    /\ LET trace == Unwrap(store[out.sid]).trace
       IN \E i, j, k \in 1..Len(trace) :
             /\ i < j /\ j < k /\ k = Len(trace)
             /\ trace[i].event_type = "gate_blocked"
             /\ trace[j].event_type /= "gate_blocked"
             /\ trace[k].event_type = "gate_blocked"

\* ------------------------------------------------------------------
\* Overlapping invocations on one session.  Each invocation is a process:
\* get_session, the handler, put_session; another invocation may run between
\* its read and its write.
\* ------------------------------------------------------------------

RaceProcs == {"h1", "h2"}

\* The invocations of a run.
MaxRuns == 3

RaceSession == "S1"

PlainPrompt == <<>>

RozPrompt == <<" ", "#", "r", "o", "z">>

RaceCalls ==
    {[kind |-> "stop", arg |-> "none"],
     [kind |-> "session-start", arg |-> "startup"],
     [kind |-> "user-prompt", arg |-> "plain"],
     [kind |-> "user-prompt", arg |-> "roz"],
     [kind |-> "decide", arg |-> "COMPLETE"],
     [kind |-> "decide", arg |-> "issues"]}

NoRaceCall == [kind |-> "none", arg |-> "none"]

RaceIdle == [pc |-> "idle", call |-> NoRaceCall,
             got |-> [err |-> FALSE, val |-> None], decided |-> FALSE]

\* The session as session-start and a #roz prompt leave it.
PromptedAt(id, t) ==
    Unwrap(handle_user_prompt([session_id |-> id, prompt |-> RozPrompt],
                              [err |-> FALSE, val |-> Some(StartedAt(id, t))], t).put)

InitRace ==
    /\ store \in {[s \in SessionIds |-> st] :
                    st \in {None, Some(StartedAt(RaceSession, 0)),
                            Some(PromptedAt(RaceSession, 0))}}
    /\ now = 0
    /\ config \in {ConfigOf(mb, "prompt", None, <<>>, DefaultMaxEvents) :
                     mb \in {1, DefaultMaxBlocks}}
    /\ out = [op |-> "init", sid |-> "none", proc |-> "none", verdict |-> "none",
              reason |-> "none", stale |-> FALSE]
    /\ obs = [runs |-> 0]
    /\ procs = [p \in RaceProcs |-> RaceIdle]
    /\ fsDir = <<>> /\ fsInodes = <<>> /\ sessionsDir = EmptyDir

\* The process starts and reads the session: store.get_session(session_id).
RaceRead(p, call) ==
    /\ procs[p].pc = "idle"
    /\ obs.runs < MaxRuns
    /\ CanGrow(RaceSession)
    /\ procs' = [procs EXCEPT ![p] = [pc |-> "read", call |-> call,
                                      got |-> GetResult(RaceSession, FALSE),
                                      decided |-> FALSE]]
    /\ obs' = [obs EXCEPT !.runs = @ + 1]
    /\ UNCHANGED <<store, now, config, out, fsDir, fsInodes, sessionsDir>>

\* What the handler makes of the state the process read.
RaceAnswer(call, got, template_id) ==
    CASE call.kind = "stop" ->
            handle_stop_with_config([session_id |-> RaceSession], got, config, now,
                                    template_id)
      [] call.kind = "session-start" ->
            handle_session_start([session_id |-> RaceSession, source |-> call.arg],
                                 got, now)
      [] call.kind = "user-prompt" ->
            handle_user_prompt([session_id |-> RaceSession,
                                prompt |-> IF call.arg = "roz" THEN RozPrompt
                                           ELSE PlainPrompt],
                               got, now)
      [] call.kind = "decide" ->
            decide_run(RaceSession, call.arg, got, FALSE, now)

\* The handler runs on the state read earlier and the process writes its
\* result: store.put_session(&state).
RaceWrite(p) ==
    /\ procs[p].pc = "read"
    /\ \E order \in Orders(config.templates.weights) :
         LET call == procs[p].call
             ans  == RaceAnswer(call, procs[p].got,
                                select_template(config.templates, order, 0))
             recorded == call.kind = "decide" /\ IsSome(ans.put)
         IN /\ store' = IF IsSome(ans.put)
                        THEN MemoryBackend_put_session(store, Unwrap(ans.put))
                        ELSE store
            /\ out' = [op |-> call.kind, sid |-> RaceSession, proc |-> p,
                       verdict |-> ans.verdict, reason |-> ans.reason,
                       stale |-> procs[p].decided]
            /\ procs' = [q \in RaceProcs |->
                           IF q = p THEN RaceIdle
                           ELSE IF procs[q].pc = "read" /\ IsSome(ans.put)
                                THEN [procs[q] EXCEPT !.decided = recorded]
                                ELSE procs[q]]
    /\ UNCHANGED <<now, config, obs, fsDir, fsInodes, sessionsDir>>

NextRace ==
    \/ \E p \in RaceProcs, call \in RaceCalls : RaceRead(p, call)
    \/ \E p \in RaceProcs : RaceWrite(p)

SpecRace == InitRace /\ [][NextRace]_vars

\* The invocations the claim lets overlap a decide.
OtherHooks ==
    {[kind |-> "stop", arg |-> "none"],
     [kind |-> "session-start", arg |-> "startup"],
     [kind |-> "user-prompt", arg |-> "plain"]}

\* Process p, which read the session before a decide wrote it, writes now.
WritesAfterDecide(p) ==
    /\ procs[p].pc = "read" /\ procs'[p].pc = "idle"
    /\ procs[p].decided
    /\ procs[p].call \in OtherHooks

ReadDecision(got) ==
    IF IsSome(got.val) THEN Unwrap(got.val).review.decision ELSE DecisionPending

ReadApprovedAt(got) ==
    IF IsSome(got.val) THEN Unwrap(got.val).review.gate_approved_at ELSE None

\* C37 as stated: the decision a decide recorded is still stored after an
\* invocation that had read the session earlier writes it back.
C37_DecisionSurvives ==
    [][\A p \in RaceProcs :
          (WritesAfterDecide(p) /\ IsSome(store[RaceSession])) =>
              /\ IsSome(store'[RaceSession])
              /\ Unwrap(store'[RaceSession]).review.decision
                    = Unwrap(store[RaceSession]).review.decision
              /\ Unwrap(store'[RaceSession]).review.gate_approved_at
                    = Unwrap(store[RaceSession]).review.gate_approved_at]_vars

C37_LastWriteStep ==
    \A p \in RaceProcs :
        /\ (WritesAfterDecide(p) /\ store' /= store) =>
              /\ IsSome(store'[RaceSession])
              /\ Unwrap(store'[RaceSession]).review.decision = ReadDecision(procs[p].got)
              /\ Unwrap(store'[RaceSession]).review.gate_approved_at
                    = ReadApprovedAt(procs[p].got)
        /\ (/\ procs[p].pc = "read" /\ procs'[p].pc = "idle"
            /\ procs[p].call.kind = "decide" /\ out'.verdict = "ok") =>
              /\ IsSome(store'[RaceSession])
              /\ Unwrap(store'[RaceSession]).review.decision.type
                    = to_lowercase(to_uppercase(procs[p].call.arg))

\* C37, amended: of two overlapping invocations the later write decides what
\* is stored.  A decide that writes last leaves its decision stored; a stop,
\* a user-prompt without #roz or a session-start that read the session
\* before the decide and writes after it stores the decision and
\* gate_approved_at it had read, and the decide's record is gone.
C37_LastWriterWins == [][C37_LastWriteStep]_vars

\* A stop that had read the session before a COMPLETE decision was written
\* wrote afterwards, and the stored decision is pending again.
C37_Witness ==
    /\ out.op = "stop" /\ out.stale
    /\ IsSome(store[RaceSession])
    /\ Unwrap(store[RaceSession]).review.decision.type = "pending"
    /\ ~IsSome(Unwrap(store[RaceSession]).review.gate_approved_at)

\* C38 as stated: whatever the interleaving of the reads and writes of
\* overlapping invocations, the stored block_count never decreases and a
\* stored circuit_breaker_tripped never goes back from true to false.
C38_CountersNeverGoBack ==
    [][\A s \in SessionIds :
          IsSome(store[s]) =>
              /\ IsSome(store'[s])
              /\ Unwrap(store'[s]).review.block_count
                    >= Unwrap(store[s]).review.block_count
              /\ Unwrap(store[s]).review.circuit_breaker_tripped
                    => Unwrap(store'[s]).review.circuit_breaker_tripped]_vars

ReadCount(got) ==
    IF IsSome(got.val) THEN Unwrap(got.val).review.block_count ELSE 0

ReadTripped(got) ==
    IF IsSome(got.val) THEN Unwrap(got.val).review.circuit_breaker_tripped ELSE FALSE

C38_WriteStep ==
    \A p \in RaceProcs :
        (procs[p].pc = "read" /\ procs'[p].pc = "idle" /\ store' /= store) =>
            /\ IsSome(store'[RaceSession])
            /\ Unwrap(store'[RaceSession]).review.block_count >= ReadCount(procs[p].got)
            /\ ReadTripped(procs[p].got)
                  => Unwrap(store'[RaceSession]).review.circuit_breaker_tripped

\* C38, amended: every invocation stores a block_count no lower than the one
\* it read and keeps a circuit_breaker_tripped it read as true, so neither
\* goes back while no other invocation writes between its read and its
\* write; when one does, the later write can store a lower block_count and
\* an untripped breaker.
C38_CountersFromRead == [][C38_WriteStep]_vars

\* A process in flight has read a block_count that a stale write has since
\* taken back.
C38_Witness ==
    /\ IsSome(store[RaceSession])
    /\ \E q \in RaceProcs :
          /\ procs[q].pc = "read"
          /\ ReadCount(procs[q].got) > Unwrap(store[RaceSession]).review.block_count
          /\ ReadTripped(procs[q].got)
          /\ ~Unwrap(store[RaceSession]).review.circuit_breaker_tripped

\* ------------------------------------------------------------------
\* The block counter and its limit
\* ------------------------------------------------------------------

CountWithinLimit ==
    \A s \in SessionIds :
        IsSome(store[s]) =>
            Unwrap(store[s]).review.block_count <= config.circuit_breaker.max_blocks

\* A step that raises the stored block_count of s.
CountRaised(s) ==
    /\ IsSome(store'[s])
    /\ Unwrap(store'[s]).review.block_count
          > (IF IsSome(store[s]) THEN Unwrap(store[s]).review.block_count ELSE 0)

C39_IncrementStep ==
    \A s \in SessionIds :
        CountRaised(s) =>
            /\ out'.op = "stop" /\ out'.sid = s
            /\ IsSome(store[s])
            /\ Unwrap(store[s]).review.block_count < config.circuit_breaker.max_blocks
            /\ ~Unwrap(store[s]).review.circuit_breaker_tripped
            /\ Unwrap(store'[s]).review.block_count
                  = Unwrap(store[s]).review.block_count + 1

\* C39: in a sequential run from a session the hooks created, with a fixed
\* max_blocks, every stored state has block_count <= max_blocks, and only a
\* stop that finds block_count strictly below max_blocks and the breaker
\* not tripped raises it, by one.
C39_CountNeverPassesLimit == [][C39_IncrementStep]_vars /\ []CountWithinLimit

\* A stop has raised the counter to a limit of at least two.
C39_Witness ==
    /\ out.op = "stop"
    /\ config.circuit_breaker.max_blocks >= 2
    /\ \E s \in SessionIds :
          /\ IsSome(store[s])
          /\ Unwrap(store[s]).review.block_count = config.circuit_breaker.max_blocks

\* ------------------------------------------------------------------
\* The statistics of the compaction marker
\* ------------------------------------------------------------------

\* C40: when a gated pre-tool-use call compacts the trace, the marker it
\* inserts accounts for every event of the sequence being compacted (the
\* new event included): kept_start + kept_end + dropped_events is that
\* sequence's length.
C40_MarkerAccountsForAll ==
    [][\A s \in SessionIds :
         (/\ out'.op = "pre-tool-use" /\ out'.sid = s /\ now' = now
          /\ out'.reason \in {"review_required", "approved", "circuit_breaker"}
          /\ Len(TraceBefore(s)) + 1 > MaxEvents)
         => LET keep_start == IF 10 < MaxEvents \div 2 THEN 10 ELSE MaxEvents \div 2
                marker     == Unwrap(store'[s]).trace[keep_start + 1]
            IN /\ marker.event_type = "trace_compacted"
               /\ marker.payload.kept_start + marker.payload.kept_end
                    + marker.payload.dropped_events
                  = Len(TraceBefore(s)) + 1]_vars

====
